---- MODULE Spec2Model ----
(***************************************************************************)
(* AVManager (the PHP terminal utility of the repository): the local       *)
(* service supervisor.  Port prober, technology classifier, service        *)
(* registry, health checker and restart orchestrator, as a state machine.  *)
(*                                                                         *)
(* PHP strings that the code inspects (commands, technology labels) are    *)
(* sequences of one-character strings, so strtolower, strpos and in_array  *)
(* are computed, not assumed.  PHP arrays with string keys are functions   *)
(* whose domain is the set of keys present.                                *)
(***************************************************************************)
EXTENDS Integers, Sequences, FiniteSets, TLC

\* ------------------------------------------------------------------ strings

upperChars == <<"A","B","C","D","E","F","G","H","I","J","K","L","M",
                "N","O","P","Q","R","S","T","U","V","W","X","Y","Z">>
lowerChars == <<"a","b","c","d","e","f","g","h","i","j","k","l","m",
                "n","o","p","q","r","s","t","u","v","w","x","y","z">>

\* strtolower on one byte
lowerChar(c) ==
  IF \E i \in 1..Len(upperChars) : upperChars[i] = c
    THEN lowerChars[CHOOSE i \in 1..Len(upperChars) : upperChars[i] = c]
    ELSE c

strtolower(s) == [i \in 1..Len(s) |-> lowerChar(s[i])]

\* strpos($haystack, $needle) !== false
strposFound(haystack, needle) ==
  \E i \in 1..(Len(haystack) - Len(needle) + 1) :
     SubSeq(haystack, i, i + Len(needle) - 1) = needle

\* $array[$key] = $value on a string-keyed PHP array
Put(arr, key, value) ==
  [k \in (DOMAIN arr) \cup {key} |-> IF k = key THEN value ELSE arr[k]]

\* $array[$key] ?? $default
Get(arr, key, default) == IF key \in DOMAIN arr THEN arr[key] ELSE default

\* a local variable: v is evaluated once and given to F
With(v, F(_)) == CHOOSE y \in {F(x) : x \in {v}} : TRUE

\* PHP null where a string is expected
null == "null"

\* PHP null where a PID is expected: no PID is known.  The code tests PIDs by
\* truth value only, so null and 0 are not told apart.
noPid == 0

\* an optional argument: not given, or given with a value
notGiven == <<>>
given(x) == << x >>

\* ------------------------------------------------- technology classifier
\* $techMap, in the order the foreach visits it
techMap ==
  << << <<"n","o","d","e">>, <<"N","o","d","e",".","j","s">> >>,
     << <<"n","p","m">>, <<"N","o","d","e",".","j","s">> >>,
     << <<"y","a","r","n">>, <<"N","o","d","e",".","j","s","/","Y","a","r","n">> >>,
     << <<"p","n","p","m">>, <<"N","o","d","e",".","j","s","/","p","n","p","m">> >>,
     << <<"r","e","a","c","t">>, <<"R","e","a","c","t">> >>,
     << <<"n","e","x","t">>, <<"N","e","x","t",".","j","s">> >>,
     << <<"n","u","x","t">>, <<"N","u","x","t",".","j","s">> >>,
     << <<"v","i","t","e">>, <<"V","i","t","e">> >>,
     << <<"n","g">>, <<"A","n","g","u","l","a","r">> >>,
     << <<"p","h","p">>, <<"P","H","P">> >>,
     << <<"p","h","p","-","f","p","m">>, <<"P","H","P","-","F","P","M">> >>,
     << <<"h","t","t","p","d">>, <<"A","p","a","c","h","e">> >>,
     << <<"n","g","i","n","x">>, <<"N","g","i","n","x">> >>,
     << <<"m","y","s","q","l">>, <<"M","y","S","Q","L">> >>,
     << <<"m","a","r","i","a","d","b">>, <<"M","a","r","i","a","D","B">> >>,
     << <<"p","o","s","t","g","r","e","s">>, <<"P","o","s","t","g","r","e","S","Q","L">> >>,
     << <<"r","e","d","i","s">>, <<"R","e","d","i","s">> >>,
     << <<"m","o","n","g","o","d","b">>, <<"M","o","n","g","o","D","B">> >>,
     << <<"p","y","t","h","o","n">>, <<"P","y","t","h","o","n">> >>,
     << <<"p","y","t","h","o","n","3">>, <<"P","y","t","h","o","n","3">> >>,
     << <<"g","u","n","i","c","o","r","n">>, <<"G","u","n","i","c","o","r","n">> >>,
     << <<"u","w","s","g","i">>, <<"u","W","S","G","I">> >>,
     << <<"r","u","b","y">>, <<"R","u","b","y">> >>,
     << <<"r","a","i","l","s">>, <<"R","u","b","y"," ","o","n"," ","R","a","i","l","s">> >>,
     << <<"j","a","v","a">>, <<"J","a","v","a">> >>,
     << <<"j","a","r">>, <<"J","a","v","a">> >>,
     << <<"t","o","m","c","a","t">>, <<"T","o","m","c","a","t">> >>,
     << <<"d","o","c","k","e","r">>, <<"D","o","c","k","e","r">> >>,
     << <<"c","o","n","t","a","i","n","e","r","d">>, <<"D","o","c","k","e","r","/","C","o","n","t","a","i","n","e","r","d">> >>,
     << <<"c","a","d","d","y">>, <<"C","a","d","d","y">> >>,
     << <<"t","r","a","e","f","i","k">>, <<"T","r","a","e","f","i","k">> >> >>

\* $portMap
portMap ==
  << << 80, <<"H","T","T","P">> >>,
     << 443, <<"H","T","T","P","S">> >>,
     << 3000, <<"N","o","d","e",".","j","s","/","R","e","a","c","t">> >>,
     << 5000, <<"F","l","a","s","k","/","P","y","t","h","o","n">> >>,
     << 8000, <<"D","j","a","n","g","o","/","P","y","t","h","o","n">> >>,
     << 8080, <<"T","o","m","c","a","t","/","J","a","v","a">> >>,
     << 9000, <<"P","H","P","-","F","P","M">> >>,
     << 3306, <<"M","y","S","Q","L">> >>,
     << 5432, <<"P","o","s","t","g","r","e","S","Q","L">> >>,
     << 27017, <<"M","o","n","g","o","D","B">> >>,
     << 6379, <<"R","e","d","i","s">> >>,
     << 27000, <<"L","M","S","/","M","e","d","i","a">> >> >>

S_Unknown == <<"U","n","k","n","o","w","n">>

\* the mutant of detectTechnology that asks the port table first
detectTechnologyPortFirst(port, command) ==
  LET commandLower == strtolower(command)
      hits == {i \in 1..Len(techMap) : strposFound(commandLower, techMap[i][1])}
      ports == {i \in 1..Len(portMap) : portMap[i][1] = port}
  IN  IF ports # {}
        THEN portMap[CHOOSE i \in ports : TRUE][2]
        ELSE IF hits # {}
          THEN techMap[CHOOSE i \in hits : \A j \in hits : i <= j][2]
          ELSE S_Unknown
\* detectTechnology($port, $command): the first keyword of $techMap that occurs
\* in the lower-cased command, else the $portMap label of the port, else 'Unknown'
detectTechnology(port, command) ==
  LET commandLower == strtolower(command)
      hits == {i \in 1..Len(techMap) : strposFound(commandLower, techMap[i][1])}
      ports == {i \in 1..Len(portMap) : portMap[i][1] = port}
  IN  IF hits # {}
        THEN techMap[CHOOSE i \in hits : \A j \in hits : i <= j][2]
        ELSE IF ports # {}
          THEN portMap[CHOOSE i \in ports : TRUE][2]
          ELSE S_Unknown

\* ------------------------------------------------------------ port prober

AVM_MAX_PORT_SCAN_TIMEOUT == 10
AVM_MIN_PORT_SCAN_TIMEOUT == 1

\* socket_select($read, $write, $except, 0, 200000): one wait, in milliseconds
selectWaitMs == 200

EINPROGRESS == 115
EISCONN == 114
ECONNREFUSED == 111

\* readyAt of a socket that socket_select never reports
Never == -1

Max(a, b) == IF a >= b THEN a ELSE b
Min(a, b) == IF a <= b THEN a ELSE b

\* What one address does to one nonblocking connect: whether socket_create
\* gave a socket, whether socket_connect returned true at once, the error the
\* failed socket_connect left on the socket, the time (ms after the connect) from
\* which socket_select reports the socket, and whether socket_select fails.
Attempt(sock, connected, errno, readyAt, selectFalse) ==
  [sock |-> sock, connected |-> connected, errno |-> errno,
   readyAt |-> readyAt, selectFalse |-> selectFalse]

\* the errno test of isPortOpen
errnoMeansOpen(errno) == errno = 0 \/ errno = EINPROGRESS \/ errno = EISCONN

\* while ($elapsed < $timeout) { socket_select ... } for one socket.  A socket
\* that is reported with another errno stays reported: every later select returns
\* at once and the loop runs until $elapsed reaches $timeout.
RECURSIVE waitForConnection(_, _, _)
waitForConnection(a, elapsed, timeoutMs) ==
  IF elapsed >= timeoutMs THEN [open |-> FALSE, waited |-> elapsed]
  ELSE IF a.selectFalse THEN [open |-> FALSE, waited |-> elapsed]
  ELSE IF a.readyAt # Never /\ a.readyAt <= elapsed + selectWaitMs
    THEN IF errnoMeansOpen(a.errno)
           THEN [open |-> TRUE, waited |-> Max(elapsed, a.readyAt)]
           ELSE [open |-> FALSE, waited |-> timeoutMs]
    ELSE waitForConnection(a, elapsed + selectWaitMs, timeoutMs)

\* one iteration of foreach ($methods as [$host, $family])
probeAddress(a, timeoutMs) ==
  IF ~a.sock THEN [open |-> FALSE, waited |-> 0]
  ELSE IF a.connected THEN [open |-> TRUE, waited |-> 0]
  ELSE waitForConnection(a, 0, timeoutMs)

\* the mutant of clampTimeout that has no upper bound
clampTimeoutNoCeiling(timeout) == Max(AVM_MIN_PORT_SCAN_TIMEOUT, timeout)
\* $timeout = max(AVM_MIN_PORT_SCAN_TIMEOUT, min($timeout, AVM_MAX_PORT_SCAN_TIMEOUT))
clampTimeout(timeout) ==
  Max(AVM_MIN_PORT_SCAN_TIMEOUT, Min(timeout, AVM_MAX_PORT_SCAN_TIMEOUT))

\* isPortOpen($port, $timeout) against net = <<127.0.0.1, ::1>>: the verdict, the
\* effective timeout (s) and the time spent waiting (ms)
isPortOpenRun(timeout, scan_timeout, net) ==
  LET effective == clampTimeout(IF timeout = notGiven THEN scan_timeout ELSE timeout[1])
  IN  With(probeAddress(net[1], effective * 1000), LAMBDA r4 :
        IF r4.open
          THEN [open |-> TRUE, timeout |-> effective, waited |-> r4.waited]
          ELSE With(probeAddress(net[2], effective * 1000), LAMBDA r6 :
                 [open |-> r6.open, timeout |-> effective,
                  waited |-> r4.waited + r6.waited]))

isPortOpen(timeout, scan_timeout, net) == isPortOpenRun(timeout, scan_timeout, net).open

\* The networks the registry operations are run against: a listener on
\* 127.0.0.1, a listener on ::1 only, connections refused at once on both
\* addresses, and packets dropped on both.
listenerV4 == << Attempt(TRUE, FALSE, EINPROGRESS, 0, FALSE),
                 Attempt(TRUE, FALSE, ECONNREFUSED, 0, FALSE) >>
listenerV6 == << Attempt(TRUE, FALSE, ECONNREFUSED, 0, FALSE),
                 Attempt(TRUE, FALSE, EINPROGRESS, 0, FALSE) >>
refused    == << Attempt(TRUE, FALSE, ECONNREFUSED, 0, FALSE),
                 Attempt(TRUE, FALSE, ECONNREFUSED, 0, FALSE) >>
dropped    == << Attempt(TRUE, FALSE, EINPROGRESS, Never, FALSE),
                 Attempt(TRUE, FALSE, EINPROGRESS, Never, FALSE) >>
Networks == {listenerV4, listenerV6, refused, dropped}

\* ------------------------------------------------------- service registry

\* the url field of buildSiteInfo: scheme, host and the port suffix (0: none)
siteUrl(port) ==
  IF port = 443 \/ port = 8443 THEN << "https", "localhost", port >>
  ELSE IF port = 80 THEN << "http", "localhost", 0 >>
  ELSE << "http", "localhost", port >>

\* buildSiteInfo($port, $processInfo) at date() = now
buildSiteInfo(port, processInfo, now) ==
  LET command == Get(processInfo, "command", <<>>)
  IN  [port |-> port,
       process |-> Get(processInfo, "process", S_Unknown),
       pid |-> Get(processInfo, "pid", noPid),
       user |-> Get(processInfo, "user", "Unknown"),
       command |-> command,
       status |-> "running",
       detected_at |-> now,
       last_check |-> now,
       technology |-> detectTechnology(port, command),
       memory_mb |-> Get(processInfo, "memory_mb", 0),
       cpu_percent |-> Get(processInfo, "cpu_percent", 0),
       connections |-> Get(processInfo, "connections", 0),
       url |-> siteUrl(port)]

\* basename($path): what follows the last "/"
basename(path) ==
  LET slashes == {i \in 1..Len(path) : path[i] = "/"}
  IN  IF slashes = {} THEN path
      ELSE SubSeq(path, (CHOOSE i \in slashes : \A j \in slashes : j <= i) + 1, Len(path))

\* getProcessInfo($port) when no method resolves a PID: the defaults
processUnknown ==
  [process |-> S_Unknown, pid |-> noPid, user |-> "Unknown", command |-> S_Unknown,
   memory_mb |-> 0, cpu_percent |-> 0, connections |-> 0, start_time |-> null]

\* getProcessInfo($port) when a PID is resolved and /proc is read: command is
\* the first word of the command line
processOf(pid, command) ==
  [process |-> basename(command), pid |-> pid, user |-> "www", command |-> command,
   memory_mb |-> 12, cpu_percent |-> 1, connections |-> 4, start_time |-> "boot"]

S_node == <<"n","o","d","e">>
S_usrBinPhp == <<"/","u","s","r","/","b","i","n","/","p","h","p">>
S_python3 == <<"p","y","t","h","o","n","3">>
S_mysqld == <<"m","y","s","q","l","d">>
S_java == <<"j","a","v","a">>
S_bash == <<"b","a","s","h">>
\* a program whose path holds a byte that is not UTF-8 (Latin-1 "caf\'e")
S_cafe == <<"/","o","p","t","/","c","a","f","0xE9","/","n","o","d","e">>

\* the owners getProcessInfo can report for a port of the modelled host
ProcessInfos(port) ==
  IF port = 3000 THEN {processUnknown, processOf(101, S_node), processOf(102, S_usrBinPhp)}
  ELSE IF port = 8000 THEN {processOf(103, S_python3), processOf(104, S_java),
                            processOf(106, S_cafe)}
  ELSE IF port = 3306 THEN {processUnknown, processOf(105, S_mysqld)}
  ELSE {processUnknown}

\* One scan loop (scanPorts / scanPortsWithCustomPorts): $foundSites after
\* foreach ($ports as $index => $port).  nets[i] is the network the i-th probe
\* meets, infos[i] what getProcessInfo reports for it.
RECURSIVE foundSites(_, _, _, _, _)
foundSites(ports, nets, infos, scan_timeout, now) ==
  IF ports = <<>> THEN <<>>
  ELSE LET n == Len(ports)
           before == foundSites(SubSeq(ports, 1, n - 1), SubSeq(nets, 1, n - 1),
                                SubSeq(infos, 1, n - 1), scan_timeout, now)
           port == ports[n]
       IN  IF isPortOpen(notGiven, scan_timeout, nets[n])
             THEN Put(before, port, buildSiteInfo(port, infos[n], now))
             ELSE before

\* the mutant of mergeFound that replaces the registry by the scan's result
mergeFoundReplace(sites, found) == found
\* foreach ($foundSites as $port => $siteInfo) { $this->websites[$port] = $siteInfo; }
mergeFound(sites, found) ==
  [p \in (DOMAIN sites) \cup (DOMAIN found) |->
     IF p \in DOMAIN found THEN found[p] ELSE sites[p]]

\* ------------------------------------------------------ process control

\* while ($waited < 10 && ...) { usleep(100000); $waited += 0.1; }: $waited is a
\* double, and the sum of a hundred 0.1 is 9.99999999999998, still below 10, so
\* the test fails first after 101 additions
killWaitSleeps == 101

\* What the host does to one killProcess call: whether the process exists on
\* entry, whether posix_kill delivers the signal, and after how many 100 ms
\* sleeps the process is gone (Never: it survives the signal).
KillEnv(exists, posixOk, goneAfter) ==
  [exists |-> exists, posixOk |-> posixOk, goneAfter |-> goneAfter]

\* the signal killProcess chooses (the mutant has the branches exchanged)
killSignalExchanged(force) == IF force THEN "SIGTERM" ELSE "SIGKILL"
\* $signal = $force ? SIGKILL : SIGTERM
killSignal(force) == IF force THEN "SIGKILL" ELSE "SIGTERM"

\* whether the loop body runs again after n sleeps, and the sleeps taken when
\* the loop ends
killWaitGoesOn(n, env) ==
  n < killWaitSleeps /\ (env.goneAfter = Never \/ n < env.goneAfter)

killWait(env) ==
  CHOOSE n \in 0..killWaitSleeps :
    /\ ~killWaitGoesOn(n, env)
    /\ \A m \in 0..(n - 1) : killWaitGoesOn(m, env)

\* $cmd = $force ? "sudo kill -9 {$pid}" : "sudo kill {$pid}": the command and
\* the signal it delivers
killCommand(pid, force) ==
  IF force THEN [pid |-> pid, signal |-> "SIGKILL", via |-> "sudo kill -9"]
  ELSE [pid |-> pid, signal |-> "SIGTERM", via |-> "sudo kill"]

\* killProcess($pid, $force): the return value, the signals sent (posix_kill,
\* then `sudo kill` when posix_kill is unavailable or fails) and the sleeps
killProcess(pid, force, posixAvailable, env) ==
  IF pid <= 0 THEN [ret |-> FALSE, signals |-> <<>>, sleeps |-> 0]
  ELSE IF ~env.exists THEN [ret |-> TRUE, signals |-> <<>>, sleeps |-> 0]
  ELSE
    LET result == posixAvailable /\ env.posixOk
        sent == (IF posixAvailable
                   THEN << [pid |-> pid, signal |-> killSignal(force),
                            via |-> "posix_kill"] >>
                   ELSE <<>>)
                \o (IF ~result THEN << killCommand(pid, force) >> ELSE <<>>)
    IN  With(killWait(env), LAMBDA sleeps :
          [ret |-> ~(env.goneAfter = Never \/ sleeps < env.goneAfter),
           signals |-> sent, sleeps |-> sleeps])

\* waitForPortRelease($port, $maxWait): the port is seen open by the first
\* `releasedAfter` probes (Never: by all of them).  Each probe is isPortOpen($port, 1).
RECURSIVE waitForPortRelease(_, _, _, _)
waitForPortRelease(i, maxWait, releasedAfter, scan_timeout) ==
  IF i >= maxWait * 10 THEN [ret |-> FALSE, probes |-> i]
  ELSE LET net == IF releasedAfter = Never \/ i < releasedAfter
                    THEN listenerV4 ELSE refused
       IN  IF ~isPortOpen(given(1), scan_timeout, net)
             THEN [ret |-> TRUE, probes |-> i + 1]
             ELSE waitForPortRelease(i + 1, maxWait, releasedAfter, scan_timeout)

\* ---------------------------------------------------- restart strategies

\* ['node.js', 'react', 'next.js', 'vite', 'node.js/yarn', 'node.js/pnpm']
nodeFamily ==
  { <<"n","o","d","e",".","j","s">>,
    <<"r","e","a","c","t">>,
    <<"n","e","x","t",".","j","s">>,
    <<"v","i","t","e">>,
    <<"n","o","d","e",".","j","s","/","y","a","r","n">>,
    <<"n","o","d","e",".","j","s","/","p","n","p","m">> }

\* ['php', 'php-fpm']
phpFamily ==
  { <<"p","h","p">>,
    <<"p","h","p","-","f","p","m">> }

\* ['python', 'python3', 'gunicorn', 'uwsgi']
pythonFamily ==
  { <<"p","y","t","h","o","n">>,
    <<"p","y","t","h","o","n","3">>,
    <<"g","u","n","i","c","o","r","n">>,
    <<"u","w","s","g","i">> }

\* ['mysql', 'mariadb', 'postgresql', 'redis', 'mongodb']
databaseFamily ==
  { <<"m","y","s","q","l">>,
    <<"m","a","r","i","a","d","b">>,
    <<"p","o","s","t","g","r","e","s","q","l">>,
    <<"r","e","d","i","s">>,
    <<"m","o","n","g","o","d","b">> }

S_mysql == <<"m","y","s","q","l">>
S_mariadb == <<"m","a","r","i","a","d","b">>
S_postgresql == <<"p","o","s","t","g","r","e","s","q","l">>
S_redis == <<"r","e","d","i","s">>
S_mongodb == <<"m","o","n","g","o","d","b">>
S_failed == <<"f","a","i","l","e","d">>

\* the polls of "while ($attempts < 10 && !$this->isPortOpen($port, 1))"
readinessPolls == 10

\* The network the k-th probe after a launch meets: the port is closed for the
\* first upAfter probes (Never: for all of them) and listening from then on.
netAfterLaunch(k, upAfter) ==
  IF upAfter # Never /\ k >= upAfter THEN listenerV4 ELSE refused

\* $attempts after the readiness loop
RECURSIVE waitForStart(_, _, _)
waitForStart(attempts, upAfter, scan_timeout) ==
  IF attempts < readinessPolls
     /\ ~isPortOpen(given(1), scan_timeout, netAfterLaunch(attempts, upAfter))
    THEN waitForStart(attempts + 1, upAfter, scan_timeout)
    ELSE attempts

\* the readiness loop and the final "if ($this->isPortOpen($port))": the probes
\* made and the final verdict
readiness(upAfter, scan_timeout) ==
  With(waitForStart(0, upAfter, scan_timeout), LAMBDA attempts :
    LET probes == IF attempts < readinessPolls THEN attempts + 1 ELSE attempts
    IN  [attempts |-> attempts, probes |-> probes + 1,
         open |-> isPortOpen(notGiven, scan_timeout, netAfterLaunch(probes, upAfter))])

NotLaunched(strategy) ==
  [ret |-> FALSE, strategy |-> strategy, launched |-> <<>>, shell |-> <<>>,
   probes |-> 0, ready |-> FALSE]

\* $scripts['start'] ?? $scripts['dev'] ?? null when neither is set
noScript == <<>>

\* !$script of PHP: null, '' and '0' are false
scriptFalsy(script) == script = noScript \/ script = << "" >> \/ script = << "0" >>

\* what restartNodeService returns when the launched service is not reachable:
\* "Service started but port {$port} not responding"; return true;
nodeNotResponding == TRUE

\* restartNodeService($cwd, $port).  fs: is_dir($cwd), the files of $cwd and what
\* json_decode makes of package.json (decoded: FALSE for null); a script is the
\* sequence of the words of its command text.
restartNodeService(cwd, port, fs, upAfter, scan_timeout) ==
  IF cwd = null \/ ~fs.isDir THEN NotLaunched("node")
  ELSE IF "package.json" \notin fs.files THEN NotLaunched("node")
  ELSE IF ~fs.package.decoded \/ DOMAIN fs.package.data = {} THEN NotLaunched("node")
  ELSE
    LET scripts == Get(fs.package.data, "scripts", <<>>)
        script == Get(scripts, "start", Get(scripts, "dev", noScript))
    IN  IF scriptFalsy(script) THEN NotLaunched("node")
        ELSE
          LET scriptName == script[1]
          IN  With(readiness(upAfter, scan_timeout), LAMBDA r :
                [ret |-> IF r.open THEN TRUE ELSE nodeNotResponding,
                 strategy |-> "node",
                 launched |-> << [cmd |-> "npm run", arg |-> scriptName, port |-> port] >>,
                 shell |-> <<>>, probes |-> r.probes, ready |-> r.open])

\* what restartPhpService and restartPythonService return when the launched
\* service is not reachable (the mutant reports a success)
launchedNotReadySoft == TRUE
\* return false;
launchedNotReady == FALSE

\* restartPhpService($cwd, $port)
restartPhpService(cwd, port, fs, upAfter, scan_timeout) ==
  With(readiness(upAfter, scan_timeout), LAMBDA r :
    [ret |-> IF r.open THEN TRUE ELSE launchedNotReady,
     strategy |-> "php",
     launched |-> << [cmd |-> "php -S", arg |-> "localhost", port |-> port] >>,
     shell |-> <<>>, probes |-> r.probes, ready |-> r.open])

\* the entry point restartPythonService picks in $cwd
pythonEntry(files) ==
  IF "manage.py" \in files THEN "manage.py runserver"
  ELSE IF "app.py" \in files THEN "app.py"
  ELSE IF "main.py" \in files THEN "main.py"
  ELSE "-m http.server"

\* restartPythonService($cwd, $port)
restartPythonService(cwd, port, fs, upAfter, scan_timeout) ==
  With(readiness(upAfter, scan_timeout), LAMBDA r :
    [ret |-> IF r.open THEN TRUE ELSE launchedNotReady,
     strategy |-> "python",
     launched |-> << [cmd |-> "python", arg |-> pythonEntry(fs.files), port |-> port] >>,
     shell |-> <<>>, probes |-> r.probes, ready |-> r.open])

\* safeExec($command) of a command that exits with rc and prints `output`:
\* if ($returnCode !== 0 || empty($output)) { return []; } return $output;
safeExec(rc, output) == IF rc # 0 \/ output = <<>> THEN <<>> ELSE output

\* implode(' ', $output)
RECURSIVE implode(_)
implode(lines) ==
  IF lines = <<>> THEN <<>>
  ELSE IF Len(lines) = 1 THEN lines[1]
  ELSE lines[1] \o << " " >> \o implode(Tail(lines))

\* $serviceName = match ($type) { ... }
serviceName(type) ==
  IF type = S_mysql THEN "mysql"
  ELSE IF type = S_mariadb THEN "mariadb"
  ELSE IF type = S_postgresql THEN "postgresql"
  ELSE IF type = S_redis THEN "redis-server"
  ELSE IF type = S_mongodb THEN "mongod"
  ELSE null

\* restartDatabaseService($type).  sys: the exit code and the output lines of
\* `sudo systemctl restart <service> 2>&1`.
restartDatabaseService(type, sys) ==
  IF serviceName(type) = null THEN NotLaunched("database")
  ELSE
    LET systemctl == [cmd |-> "systemctl restart", arg |-> serviceName(type)]
    IN  With(implode(safeExec(sys.rc, sys.output)), LAMBDA outputStr :
        IF outputStr # <<>> /\ strposFound(outputStr, S_failed)
          THEN [ret |-> TRUE, strategy |-> "database",
                launched |-> << [cmd |-> "sudo nohup", arg |-> serviceName(type), port |-> 0] >>,
                shell |-> << systemctl, [cmd |-> "pkill", arg |-> serviceName(type)] >>,
                probes |-> 0, ready |-> FALSE]
          ELSE [ret |-> TRUE, strategy |-> "database", launched |-> <<>>,
                shell |-> << systemctl >>, probes |-> 0, ready |-> FALSE])

\* the in_array tests of restartByTechnology (the mutant takes every label that
\* names Node.js for the Node.js family)
strategyOfLoose(techLower) ==
  IF techLower \in nodeFamily \/ strposFound(techLower, S_node) THEN "node"
  ELSE IF techLower \in phpFamily THEN "php"
  ELSE IF techLower \in pythonFamily THEN "python"
  ELSE IF techLower \in databaseFamily THEN "database"
  ELSE "unsupported"
strategyOf(techLower) ==
  IF techLower \in nodeFamily THEN "node"
  ELSE IF techLower \in phpFamily THEN "php"
  ELSE IF techLower \in pythonFamily THEN "python"
  ELSE IF techLower \in databaseFamily THEN "database"
  ELSE "unsupported"

\* restartByTechnology($tech, $port, $command).  env: what findProjectDirectory
\* returns (cwd), the directory (fs), the readiness of the port after a launch
\* (upAfter) and the service manager (sys); currentDir stands for $this->currentDir.
restartByTechnology(tech, port, command, env, scan_timeout) ==
  LET cwd == env.cwd
      phpCwd == IF cwd = null THEN "currentDir" ELSE cwd
  IN  With(strtolower(tech), LAMBDA techLower :
      With(strategyOf(techLower), LAMBDA strategy :
      IF strategy = "node"
        THEN restartNodeService(cwd, port, env.fs, env.upAfter, scan_timeout)
      ELSE IF strategy = "php"
        THEN restartPhpService(phpCwd, port, env.fs, env.upAfter, scan_timeout)
      ELSE IF strategy = "python"
        THEN restartPythonService(phpCwd, port, env.fs, env.upAfter, scan_timeout)
      ELSE IF strategy = "database"
        THEN restartDatabaseService(techLower, env.sys)
      ELSE NotLaunched("unsupported")))

\* --------------------------------------------------------- health checker

\* the timeout checkServiceHealth gives to isPortOpen, in seconds
healthProbeTimeout == 3

\* the latency bounds of checkServiceHealth, in hundredths of a millisecond
\* ($latency < 100, $latency < 500 on a value rounded to two decimals)
healthyBelow == 10000
slowBelow == 50000

\* round((microtime(true) - $start) * 1000, 2), in hundredths of a millisecond,
\* of an elapsed time in microseconds
latencyOf(us) == (us + 5) \div 10

\* the upper bound of 'Slow response' (the mutant reads the configured
\* latency_threshold_ms, which configureHealthAlerts stores)
slowBoundConfigured(cfg) ==
  IF "latency_threshold_ms" \in DOMAIN cfg THEN cfg["latency_threshold_ms"] * 100
  ELSE slowBelow
slowBound(cfg) == slowBelow

\* checkServiceHealth($port).  net: what the prober meets; connectOk, us: whether
\* fsockopen('127.0.0.1', $port) gives a socket and the microseconds it takes.
\* connects counts the fsockopen calls made.
checkServiceHealth(cfg, net, connectOk, us, now) ==
  IF ~isPortOpen(given(healthProbeTimeout), cfg["scan_timeout"], net)
    THEN [status |-> "unhealthy", latency |-> 0, message |-> "Port not responding",
          timestamp |-> now, connects |-> 0]
  ELSE IF connectOk
    THEN LET latency == latencyOf(us)
         IN  IF latency < healthyBelow
               THEN [status |-> "healthy", latency |-> latency, message |-> "",
                     timestamp |-> now, connects |-> 1]
             ELSE IF latency < slowBound(cfg)
               THEN [status |-> "degraded", latency |-> latency,
                     message |-> "Slow response", timestamp |-> now, connects |-> 1]
             ELSE [status |-> "degraded", latency |-> latency,
                   message |-> "High latency", timestamp |-> now, connects |-> 1]
  ELSE [status |-> "unhealthy", latency |-> 0, message |-> "Connection failed",
        timestamp |-> now, connects |-> 1]

\* What one port does to one health check
HealthEnv(net, connectOk, us) == [net |-> net, connectOk |-> connectOk, us |-> us]

\* the mutant of checkedSite that also marks an unhealthy record as stopped
checkedSiteStopsUnhealthy(site, status, now) ==
  Put(Put(Put(Put(site, "health_status", status.status), "latency_ms", status.latency),
          "last_check", now),
      "status", IF status.status = "unhealthy" THEN "stopped" ELSE site["status"])
\* $site['health_status'] = ..; $site['latency_ms'] = ..; $site['last_check'] = ..
checkedSite(site, status, now) ==
  Put(Put(Put(site, "health_status", status.status), "latency_ms", status.latency),
      "last_check", now)

\* the loop of healthCheck over a copy of the registry: a record whose 'port'
\* is positive is checked on that port and stored under it, whatever its key;
\* henv[k] is what the port of the record under key k does
checkedSites(sites, cfg, henv, now) ==
  LET visited == {k \in DOMAIN sites : sites[k]["port"] > 0}
      written == {sites[k]["port"] : k \in visited}
      last(p) == CHOOSE k \in visited :
                   /\ sites[k]["port"] = p
                   /\ \A j \in visited : sites[j]["port"] = p => j <= k
  IN  [p \in (DOMAIN sites) \cup written |->
         IF p \in written
           THEN LET k == last(p)
                    status == checkServiceHealth(cfg, henv[k].net, henv[k].connectOk,
                                                 henv[k].us, now)
                IN  checkedSite(sites[k], status, now)
           ELSE sites[p]]

\* $results of healthCheck, keyed by the ports checked
healthResults(sites, cfg, henv, now) ==
  LET visited == {k \in DOMAIN sites : sites[k]["port"] > 0}
      written == {sites[k]["port"] : k \in visited}
      last(p) == CHOOSE k \in visited :
                   /\ sites[k]["port"] = p
                   /\ \A j \in visited : sites[j]["port"] = p => j <= k
  IN  [p \in written |->
         LET k == last(p)
             status == checkServiceHealth(cfg, henv[k].net, henv[k].connectOk,
                                          henv[k].us, now)
         IN  [status |-> status.status, latency |-> status.latency,
              message |-> status.message, timestamp |-> status.timestamp]]

\* the mutant of historyPut that adds an entry for every check
historyPutAppends(history, timestamp, results) ==
  Append(history, [timestamp |-> timestamp, results |-> results])
\* The health history is a PHP array keyed by the timestamp string: a sequence
\* of entries in insertion order, at most one per key.
\* $this->healthHistory[$timestamp] = $results
historyPut(history, timestamp, results) ==
  IF \E i \in 1..Len(history) : history[i].timestamp = timestamp
    THEN [i \in 1..Len(history) |->
            IF history[i].timestamp = timestamp
              THEN [timestamp |-> timestamp, results |-> results]
              ELSE history[i]]
    ELSE Append(history, [timestamp |-> timestamp, results |-> results])

\* the entries saveHealthHistory keeps
historyLimit == 100

\* the mutant of historyTrim that keeps the first entries
historyTrimOldest(history) ==
  IF Len(history) > historyLimit THEN SubSeq(history, 1, historyLimit) ELSE history
\* if (count(..) > 100) { array_slice($this->healthHistory, -100, null, true) }
historyTrim(history) ==
  IF Len(history) > historyLimit
    THEN SubSeq(history, Len(history) - historyLimit + 1, Len(history))
    ELSE history

\* ------------------------------------------------------------ persistence

\* a file that does not exist
absent == [kind |-> "absent"]

\* a byte that is not valid UTF-8 on its own (0xE9, Latin-1 e acute)
byteE9 == "0xE9"

\* whether json_encode accepts the string: it is valid UTF-8
validUtf8(str) == \A i \in 1..Len(str) : str[i] # byteE9

\* whether json_encode($this->websites) succeeds: the strings getProcessInfo
\* read from the host ('command', 'process') are valid UTF-8
encodable(arr) ==
  \A k \in DOMAIN arr : \A field \in {"command", "process"} \cap DOMAIN arr[k] :
     validUtf8(arr[k][field])

\* an integer key as json_encode writes it: its decimal digits
RECURSIVE decimal(_)
decimal(k) == IF k < 10 THEN << k >> ELSE Append(decimal(k \div 10), k % 10)

\* the array key PHP makes of a member name of decimal digits without a
\* leading zero: the integer
RECURSIVE arrayKey(_)
arrayKey(name) ==
  IF Len(name) = 1 THEN name[1]
  ELSE arrayKey(SubSeq(name, 1, Len(name) - 1)) * 10 + name[Len(name)]

\* file_put_contents($file, json_encode($arr, JSON_PRETTY_PRINT)) of a PHP array
\* with integer keys: a JSON array when the keys are 0..n-1 (so for the empty
\* array), else a JSON object whose member names are the keys in decimal;
\* member values keep their fields.  When a string is not valid UTF-8
\* json_encode returns false and the file is written empty.
json_encode(arr) ==
  LET n == Cardinality(DOMAIN arr)
  IN  IF ~encodable(arr) THEN [kind |-> "empty"]
      ELSE IF DOMAIN arr = 0..(n - 1)
        THEN [kind |-> "list", items |-> [i \in 1..n |-> arr[i - 1]]]
        ELSE [kind |-> "object",
              members |-> [name \in {decimal(k) : k \in DOMAIN arr} |->
                             arr[CHOOSE k \in DOMAIN arr : decimal(k) = name]]]

\* a file cut short in the middle of a write: not JSON
truncated == [kind |-> "truncated"]

\* a file that holds one JSON value that is neither array nor object
scalar(json) == [kind |-> "scalar", json |-> json]

\* the JSON scalars PHP takes for false in if ($websites)
falsyScalars == {"null", "false", "0", "0.0", "\"\"", "\"0\""}

\* json_decode(file_get_contents($file), true): null for text that is not
\* JSON, the array of a JSON array or object (decimal member names become
\* integer keys), else the scalar
json_decode(file) ==
  IF file.kind = "list"
    THEN [type |-> "array", value |-> [i \in 0..(Len(file.items) - 1) |-> file.items[i + 1]]]
  ELSE IF file.kind = "object"
    THEN [type |-> "array",
          value |-> [k \in {arrayKey(name) : name \in DOMAIN file.members} |->
                       file.members[CHOOSE name \in DOMAIN file.members :
                                      arrayKey(name) = k]]]
  ELSE IF file.kind = "scalar" THEN [type |-> "scalar", json |-> file.json]
  ELSE [type |-> "null"]

\* json_encode of the health history: an object whose member names are the
\* timestamps, in insertion order; the empty history is a JSON array
json_encode_history(history) ==
  IF history = <<>> THEN [kind |-> "list", items |-> <<>>]
  ELSE [kind |-> "object", members |-> history]


\* json_decode of the history file: the entries of a JSON object in the order
\* of the file, the empty array of a JSON array without items
json_decode_history(file) ==
  IF file.kind = "object" THEN [type |-> "array", value |-> file.members]
  ELSE IF file.kind = "list" THEN [type |-> "array", value |-> file.items]
  ELSE IF file.kind = "scalar" THEN [type |-> "scalar", json |-> file.json]
  ELSE [type |-> "null"]

\* if ($decoded) { $this->property = $decoded; } for a property declared
\* `array`: an empty array, null and a falsy scalar leave the property as it
\* is, a truthy scalar is a TypeError
assignDecoded(decoded, property) ==
  IF decoded.type = "array"
    THEN [fatal |-> FALSE,
          value |-> IF DOMAIN decoded.value = {} THEN property ELSE decoded.value]
  ELSE IF decoded.type = "scalar" /\ decoded.json \notin falsyScalars
    THEN [fatal |-> TRUE, value |-> property]
  ELSE [fatal |-> FALSE, value |-> property]

\* loadWebsites() in a new process: the registry, then the health history,
\* each from its file when the file exists; fatal when an assignment throws
loadWebsites(wfile, hfile) ==
  LET sites == IF wfile.kind = "absent" THEN [fatal |-> FALSE, value |-> <<>>]
               ELSE assignDecoded(json_decode(wfile), <<>>)
      history == IF sites.fatal \/ hfile.kind = "absent"
                   THEN [fatal |-> FALSE, value |-> <<>>]
                   ELSE assignDecoded(json_decode_history(hfile), <<>>)
  IN  [fatal |-> sites.fatal \/ history.fatal,
       websites |-> sites.value, healthHistory |-> history.value]
\* ----------------------------------------------------- restart orchestrator

\* seconds restartByPort gives waitForPortRelease
releaseMaxWait == 5

NoKill == [ret |-> FALSE, signals |-> <<>>, sleeps |-> 0]

\* what restartByPort does for a port without a record (the mutant reports a
\* success)
portNotFoundSucceeds(sites, port) ==
  [ret |-> TRUE, websites |-> sites, saved |-> FALSE, port |-> port,
   known |-> FALSE, confirmed |-> FALSE, killed |-> FALSE, kill |-> NoKill,
   releaseProbes |-> 0, tech |-> NotLaunched("none")]
\* printError("No website found on port {$port}"); return false;
portNotFound(sites, port) ==
  [ret |-> FALSE, websites |-> sites, saved |-> FALSE, port |-> port,
   known |-> FALSE, confirmed |-> FALSE, killed |-> FALSE, kill |-> NoKill,
   releaseProbes |-> 0, tech |-> NotLaunched("none")]

\* whether restartByPort terminates the owner (the mutant does not test the PID)
pidKnownAlways(site) == TRUE
\* if ($site['pid'])
pidKnown(site) == site["pid"] # noPid

\* whether restartByPort terminates the owner before it looks at the technology
\* (the mutant leaves the owner of an unsupported technology alone)
terminatesOwnerIfSupported(site) ==
  pidKnown(site) /\ strategyOf(strtolower(site["technology"])) # "unsupported"
\* if ($site['pid']) { $this->killProcess($site['pid']); ... } comes before
\* restartByTechnology and does not read $site['technology']
terminatesOwner(site) == pidKnown(site)

\* the status restartByPort records after restartByTechnology returned
\* $restarted (the mutant records a failed restart as running)
statusAfterRestartAlwaysRunning(restarted) == "running"
statusAfterRestart(restarted) == IF restarted THEN "running" ELSE "stopped"

\* restartByPort($port) at date() = now.  answer: the reply to confirmAction();
\* kenv, releasedAfter, renv: what the host does to killProcess, to
\* waitForPortRelease and to restartByTechnology.
restartByPort(sites, cfg, posix, port, now, answer, kenv, releasedAfter, renv) ==
  IF port \notin DOMAIN sites THEN portNotFound(sites, port)
  ELSE
    LET site == sites[port]
    IN  IF ~(~cfg["confirm_actions"] \/ answer)
          THEN [ret |-> FALSE, websites |-> sites, saved |-> FALSE, port |-> port,
                known |-> TRUE, confirmed |-> FALSE, killed |-> FALSE, kill |-> NoKill,
                releaseProbes |-> 0, tech |-> NotLaunched("none")]
          ELSE
            With(IF terminatesOwner(site) THEN killProcess(site["pid"], FALSE, posix, kenv)
                 ELSE NoKill, LAMBDA kill :
            With(waitForPortRelease(0, releaseMaxWait, releasedAfter,
                                    cfg["scan_timeout"]), LAMBDA release :
            With(restartByTechnology(site["technology"], port,
                                     Get(site, "command", <<>>), renv,
                                     cfg["scan_timeout"]), LAMBDA tech :
              LET restarted == tech.ret
                  stamped == IF restarted
                    THEN Put(Put(site, "status", statusAfterRestart(restarted)),
                             "restarted_at", now)
                    ELSE Put(Put(site, "status", statusAfterRestart(restarted)),
                             "stopped_at", now)
              IN  [ret |-> restarted,
                   websites |-> [sites EXCEPT ![port] = stamped],
                   saved |-> TRUE, port |-> port, known |-> TRUE, confirmed |-> TRUE,
                   killed |-> terminatesOwner(site), kill |-> kill,
                   releaseProbes |-> release.probes, tech |-> tech])))

\* the ports of a registry in ascending order
RECURSIVE portsOf(_)
portsOf(sites) ==
  IF DOMAIN sites = {} THEN <<>>
  ELSE LET p == CHOOSE q \in DOMAIN sites : \A r \in DOMAIN sites : q <= r
       IN  << p >> \o portsOf([q \in (DOMAIN sites) \ {p} |-> sites[q]])

\* the mutant of alertDue that alerts for every record that is not healthy
alertDueNotHealthy(site) == Get(site, "health_status", "unknown") # "healthy"
\* $status = $site['health_status'] ?? 'unknown'; if ($status === 'unhealthy')
alertDue(site) == Get(site, "health_status", "unknown") = "unhealthy"

\* the mutant of alertRestarts that restarts unasked when the setting
\* auto_restart_on_failure is on
alertRestartsAuto(cfg, reply) ==
  Get(cfg, "auto_restart_on_failure", FALSE) \/ (cfg["confirm_actions"] /\ reply)
\* if ($this->config['confirm_actions']) { $restart = readInput("Restart
\* service? (y/N): "); if (in_array(strtolower($restart), ['y', 'yes'])) ... }
alertRestarts(cfg, reply) == cfg["confirm_actions"] /\ reply

\* checkAlerts(): foreach ($this->websites as $site) over the registry as it was
\* when the loop began (snapshot); for an unhealthy record, when confirm_actions
\* is set, the operator is asked (yes[port]) and restartByPort is called on yes.
\* The result: the registry, whether it was saved, the ports alerted for
\* (sendNotification), the ports prompted for and the restartByPort calls made.
RECURSIVE checkAlerts(_, _, _, _, _, _, _, _, _, _, _)
checkAlerts(todo, snapshot, sites, cfg, posix, now, yes, answer, kenv, releasedAfter, renv) ==
  IF todo = <<>>
    THEN [websites |-> sites, saved |-> FALSE, alerted |-> <<>>, prompted |-> <<>>,
          restarts |-> <<>>]
  ELSE
    LET port == Head(todo)
        unhealthy == Get(snapshot[port], "port", 0) > 0 /\ alertDue(snapshot[port])
        asked == unhealthy /\ cfg["confirm_actions"]
        does == unhealthy /\ alertRestarts(cfg, yes[port])
    IN  With(IF does
               THEN restartByPort(sites, cfg, posix, port, now, answer, kenv,
                                  releasedAfter, renv)
               ELSE [websites |-> sites, saved |-> FALSE], LAMBDA run :
        With(checkAlerts(Tail(todo), snapshot, run.websites, cfg, posix, now, yes,
                         answer, kenv, releasedAfter, renv), LAMBDA rest :
          [websites |-> rest.websites,
           saved |-> run.saved \/ rest.saved,
           alerted |-> (IF unhealthy THEN << port >> ELSE <<>>) \o rest.alerted,
           prompted |-> (IF asked THEN << port >> ELSE <<>>) \o rest.prompted,
           restarts |-> (IF does THEN << run >> ELSE <<>>) \o rest.restarts]))

\* ------------------------------------------------------------------ state

VARIABLES
  websites,        \* $this->websites: port -> service record
  healthHistory,   \* $this->healthHistory, in insertion order
  config,          \* $this->config
  configFile,      \* the configuration file
  posixAvailable,  \* $this->posixAvailable
  websitesFile,    \* websites.json
  historyFile,     \* health_history.json
  clock,           \* the second date() reports
  op               \* the operation that ended last: its inputs, result and effects

vars == << websites, healthHistory, config, configFile, posixAvailable,
           websitesFile, historyFile, clock, op >>

\* $this->config as the class declares it (the keys the modelled code reads)
configDefault ==
  [scan_timeout |-> 2, auto_save |-> TRUE, confirm_actions |-> TRUE, max_retries |-> 3,
   health_check_interval |-> 60]

\* array_merge($this->config, $config)
array_merge(a, b) ==
  [k \in (DOMAIN a) \cup (DOMAIN b) |-> IF k \in DOMAIN b THEN b[k] ELSE a[k]]

\* loadConfiguration(): the defaults when the file does not exist, else the
\* defaults with the members of the file over them
loadConfiguration(file) ==
  IF file.kind = "absent" THEN configDefault
  ELSE array_merge(configDefault, file.members)

\* saveConfiguration(): the whole of $this->config
saveConfiguration(cfg) == [kind |-> "object", members |-> cfg]

\* the configuration file an earlier session left after it set auto_save and
\* confirm_actions (none when both are as declared)
configFileWith(auto_save, confirm_actions) ==
  IF auto_save /\ confirm_actions THEN absent
  ELSE saveConfiguration([configDefault EXCEPT !.auto_save = auto_save,
                                               !.confirm_actions = confirm_actions])

\* the registry a scan of `ports` leaves in an empty registry when every port
\* listens and getProcessInfo reports infos[i] for the i-th
scanned(ports, infos, now) ==
  mergeFound(<<>>, foundSites(ports, [i \in 1..Len(ports) |-> listenerV4], infos, 2, now))

\* The state after the constructor of a process that finds the files wfile
\* (websites.json), hfile (health_history.json) and cfile (the configuration):
\* loadConfiguration(), then loadWebsites(); an uncaught error ends the process
Constructed(wfile, hfile, cfile, posix) ==
  /\ websitesFile = wfile
  /\ historyFile = hfile
  /\ configFile = cfile
  /\ config = loadConfiguration(cfile)
  /\ posixAvailable = posix
  /\ \E loaded \in {loadWebsites(wfile, hfile)} :
        /\ websites = loaded.websites
        /\ healthHistory = loaded.healthHistory
        /\ op = [kind |-> "start", fatal |-> loaded.fatal]
  /\ clock = 0

\* The state after the constructor when an earlier run saved the registry
\* `sites` (no websites.json on a first run) and no health history.
Started(sites, auto_save, confirm_actions, posix) ==
  Constructed(IF DOMAIN sites = {} THEN absent ELSE json_encode(sites), absent,
              configFileWith(auto_save, confirm_actions), posix)

\* ------------------------------------------ the interactive session (Spec)

\* the operations of one modelled session
MaxClock == 2

\* every operation takes up a second of its own
Later ==
  /\ clock < MaxClock
  /\ clock' = clock + 1

\* the port lists given to a scan
ScanLists == { << 3000 >>, << 80, 443, 3000 >>, << 3306, 3000 >>, << 8000 >> }

\* what a probe of a scan can meet on a port: nothing listens on 80 and 443
ScanNetworks(port) ==
  IF port \in {80, 443} THEN {refused} ELSE {listenerV4, refused}

\* killProcess: the process dies at once, or survives the signal
KillEnvs == { KillEnv(TRUE, TRUE, 0), KillEnv(TRUE, TRUE, Never) }

\* package.json files
packageStart == [decoded |-> TRUE,
                 data |-> [name |-> "app", scripts |-> [start |-> << "node", "server.js" >>,
                                                        dev |-> << "dev" >>]]]
packageDev == [decoded |-> TRUE, data |-> [name |-> "app", scripts |-> [dev |-> << "dev" >>]]]
packageBare == [decoded |-> TRUE, data |-> [name |-> "app"]]
packageBroken == [decoded |-> FALSE, data |-> <<>>]

\* output lines of `systemctl restart`
S_jobFailed == << <<"J","o","b"," ","f","a","i","l","e","d">> >>
S_active == << <<"a","c","t","i","v","e">> >>

\* what the host can do to one restartByTechnology call
RestartEnv(cwd, isDir, files, package, upAfter, rc, output) ==
  [cwd |-> cwd, fs |-> [isDir |-> isDir, files |-> files, package |-> package],
   upAfter |-> upAfter, sys |-> [rc |-> rc, output |-> output]]

\* restartByTechnology: a project that comes back at once, and no project
RestartEnvs ==
  { RestartEnv("dir", TRUE, {"package.json"}, packageStart, 0, 0, <<>>),
    RestartEnv(null, FALSE, {}, packageBroken, Never, 1, S_jobFailed) }

\* what a port can do to one health check: closed, or a connect of 50 ms
HealthEnvs == { HealthEnv(refused, FALSE, 0), HealthEnv(listenerV4, TRUE, 50000) }

Init ==
  \E sites \in { <<>>,
                 scanned(<< 3000 >>, << processOf(101, S_node) >>, 0),
                 scanned(<< 3000, 8080 >>, << processUnknown, processOf(104, S_java) >>, 0) } :
  \E start \in { << TRUE, TRUE, TRUE >>, << TRUE, FALSE, FALSE >>, << FALSE, TRUE, TRUE >> } :
     Started(sites, start[1], start[2], start[3])

\* the body scanPorts and scanPortsWithCustomPorts share, for the list `ports`,
\* when the i-th probe meets nets[i] and getProcessInfo reports infos[i]
ScanWith(ports, nets, infos) ==
  /\ \E merged \in {mergeFound(websites, foundSites(ports, nets, infos,
                                                    config["scan_timeout"], clock))} :
         /\ websites' = merged
         /\ websitesFile' = IF config["auto_save"] THEN json_encode(merged)
                            ELSE websitesFile
         /\ op' = [kind |-> "scan", ports |-> ports,
                   opened |-> {ports[i] : i \in {j \in 1..Len(ports) :
                                  isPortOpen(notGiven, config["scan_timeout"], nets[j])}}]
  /\ UNCHANGED << healthHistory, config, configFile, posixAvailable, historyFile >>

\* a scan of the list `ports` against whatever the ports of the host do
Scan(ports) ==
  \E nets \in [1..Len(ports) -> Networks] :
  \E infos \in [1..Len(ports) -> UNION {ProcessInfos(ports[i]) : i \in 1..Len(ports)}] :
     /\ \A i \in 1..Len(ports) :
          /\ nets[i] \in ScanNetworks(ports[i])
          /\ infos[i] \in ProcessInfos(ports[i])
          /\ nets[i] = refused => infos[i] = processUnknown
     /\ ScanWith(ports, nets, infos)

\* scanPorts(): the list typed at the prompt
scanPorts == Later /\ \E ports \in ScanLists : Scan(ports)

\* scanPortsWithCustomPorts($ports)
scanPortsWithCustomPorts == Later /\ \E ports \in ScanLists : Scan(ports)

\* the mutant of historySaved that saves the history under auto_save only
historySavedIfAutoSave(cfg) == cfg["auto_save"]
\* whether healthCheck calls saveHealthHistory(): after every check that ran
historySaved(cfg) == TRUE

\* healthCheck() against the ports' answers henv, at date() = now, called from
\* `caller`
HealthCheckFrom(caller, henv, now) ==
  \E results \in {healthResults(websites, config, henv, now)},
     checked \in {checkedSites(websites, config, henv, now)} :
  \E history \in {IF historySaved(config)
                    THEN historyTrim(historyPut(healthHistory, now, results))
                    ELSE historyPut(healthHistory, now, results)} :
      /\ websites' = checked
      /\ healthHistory' = history
      /\ historyFile' = IF historySaved(config) THEN json_encode_history(history)
                         ELSE historyFile
      /\ websitesFile' = IF config["auto_save"] THEN json_encode(checked)
                         ELSE websitesFile
      /\ op' = [kind |-> caller, results |-> results, checked |-> TRUE,
                replaced |-> \E i \in 1..Len(healthHistory) :
                               healthHistory[i].timestamp = now]
      /\ UNCHANGED << config, configFile, posixAvailable >>

\* healthCheck() called from the menus, the command line and the loops
HealthCheck(henv, now) == HealthCheckFrom("healthCheck", henv, now)

\* healthCheck() on an empty registry: "No websites to check", return []
HealthCheckEmpty ==
  /\ op' = [kind |-> "healthCheck", results |-> <<>>, checked |-> FALSE,
            replaced |-> FALSE]
  /\ UNCHANGED << websites, healthHistory, config, configFile, posixAvailable, websitesFile,
                  historyFile >>

healthCheck ==
  /\ Later
  /\ IF DOMAIN websites = {} THEN HealthCheckEmpty
     ELSE \E henv \in [DOMAIN websites -> HealthEnvs] : HealthCheck(henv, clock)

\* restartByPort($port) as an operation: the registry and websites.json after
\* it, and the record of the call
RestartByPort(port, answer, kenv, releasedAfter, renv) ==
  \E run \in {restartByPort(websites, config, posixAvailable, port, clock, answer,
                            kenv, releasedAfter, renv)} :
      /\ websites' = run.websites
      /\ websitesFile' = IF run.saved THEN json_encode(run.websites) ELSE websitesFile
      /\ op' = [kind |-> "restartByPort", run |-> [run EXCEPT !.websites = <<>>],
                now |-> clock, answer |-> answer, kenv |-> kenv,
                releasedAfter |-> releasedAfter, renv |-> renv]
      /\ UNCHANGED << healthHistory, config, configFile, posixAvailable, historyFile >>

\* restartWebsite(): the registry is not empty and the port typed at the prompt
\* is a registered one (selectWebsite); then restartByPort($port)
restartWebsite ==
  /\ Later
  /\ DOMAIN websites # {}
  /\ \E port \in DOMAIN websites, answer \in BOOLEAN, kenv \in KillEnvs,
        renv \in RestartEnvs :
       RestartByPort(port, answer, kenv, 0, renv)

\* the mutant of shutdownRecorded that records the shutdown only when
\* killProcess reported the process gone
shutdownRecordedIfKilled(kill) == kill.ret
\* $this->killProcess($site['pid']); the result is not read, and the status,
\* shutdown_at and saveWebsites() follow in every case
shutdownRecorded(kill) == TRUE

\* shutdownWebsite(): the port typed at the prompt is a registered one
\* (selectWebsite), answer is the reply to confirmAction()
shutdownWebsite ==
  /\ Later
  /\ DOMAIN websites # {}
  /\ \E port \in DOMAIN websites, answer \in BOOLEAN, kenv \in KillEnvs :
       LET site == websites[port]
           confirmed == ~config["confirm_actions"] \/ answer
           kill == killProcess(site["pid"], FALSE, posixAvailable, kenv)
           stopped == [websites EXCEPT ![port] =
                         Put(Put(site, "status", "stopped"), "shutdown_at", clock)]
       IN  IF confirmed /\ site["pid"] # noPid
             THEN /\ websites' = IF shutdownRecorded(kill) THEN stopped ELSE websites
                  /\ websitesFile' = IF shutdownRecorded(kill) THEN json_encode(stopped)
                                     ELSE websitesFile
                  /\ op' = [kind |-> "shutdownWebsite", port |-> port,
                            confirmed |-> TRUE, kill |-> kill, shell |-> <<>>]
             ELSE /\ op' = [kind |-> "shutdownWebsite", port |-> port,
                            confirmed |-> confirmed, kill |-> NoKill,
                            shell |-> IF confirmed
                                        THEN << [cmd |-> "sudo fuser -k", arg |-> port] >>
                                        ELSE <<>>]
                  /\ UNCHANGED << websites, websitesFile >>
  /\ UNCHANGED << healthHistory, config, configFile, posixAvailable, historyFile >>

\* sleepWebsite()
sleepWebsite ==
  /\ Later
  /\ DOMAIN websites # {}
  /\ \E port \in DOMAIN websites, answer \in BOOLEAN :
       LET site == websites[port]
           confirmed == ~config["confirm_actions"] \/ answer
           asleep == [websites EXCEPT ![port] =
                        Put(Put(site, "status", "sleeping"), "sleep_since", clock)]
       IN  IF confirmed /\ site["pid"] # noPid
             THEN /\ websites' = asleep
                  /\ websitesFile' = json_encode(asleep)
                  /\ op' = [kind |-> "sleepWebsite", port |-> port, confirmed |-> TRUE,
                            shell |-> << [cmd |-> "sudo renice 19 -p", arg |-> site["pid"]],
                                         [cmd |-> "sudo cpulimit -l 10 -b -p",
                                          arg |-> site["pid"]] >>]
             ELSE /\ op' = [kind |-> "sleepWebsite", port |-> port,
                            confirmed |-> confirmed, shell |-> <<>>]
                  /\ UNCHANGED << websites, websitesFile >>
  /\ UNCHANGED << healthHistory, config, configFile, posixAvailable, historyFile >>

\* the alert pass of startContinuousMonitoring: checkAlerts() after a health check
alertPass ==
  /\ Later
  /\ op.kind = "healthCheck"
  /\ \E yes \in [DOMAIN websites -> BOOLEAN], answer \in BOOLEAN, kenv \in KillEnvs,
        releasedAfter \in {0}, renv \in RestartEnvs :
       \E pass \in {checkAlerts(portsOf(websites), websites, websites, config,
                                posixAvailable, clock, yes, answer, kenv,
                                releasedAfter, renv)} :
           /\ websites' = pass.websites
           /\ websitesFile' = IF pass.saved THEN json_encode(pass.websites)
                              ELSE websitesFile
           /\ op' = [kind |-> "checkAlerts", alerted |-> pass.alerted,
                     prompted |-> pass.prompted,
                     restarts |-> [i \in 1..Len(pass.restarts) |->
                                     [pass.restarts[i] EXCEPT !.websites = <<>>]]]
  /\ UNCHANGED << healthHistory, config, configFile, posixAvailable, historyFile >>

\* killProcessByInput(): the PID and the "Force kill?" reply typed at the prompts
killProcessByInput ==
  /\ Later
  /\ \E pid \in {101}, force \in BOOLEAN, kenv \in KillEnvs :
     /\ op' = [kind |-> "killProcessByInput", pid |-> pid, force |-> force,
               kill |-> killProcess(pid, force, posixAvailable, kenv)]
     /\ UNCHANGED << websites, healthHistory, config, configFile, posixAvailable, websitesFile,
                     historyFile >>

Next ==
  \/ scanPorts
  \/ scanPortsWithCustomPorts
  \/ healthCheck
  \/ restartWebsite
  \/ shutdownWebsite
  \/ sleepWebsite
  \/ alertPass
  \/ killProcessByInput

Spec == Init /\ [][Next]_vars


\* ------------------------------- the health menu of a session (SpecHealth)

\* the elapsed times of the fresh connect, in microseconds: 50 ms, the two
\* sides of 100 ms and of 500 ms after rounding, 300 ms and 800 ms
ConnectTimes == {50000, 99994, 99995, 300000, 499994, 499995, 800000}

\* what a port can do to one checkServiceHealth call
HealthSamples ==
  {HealthEnv(net, TRUE, us) : net \in Networks, us \in ConnectTimes}
  \cup {HealthEnv(net, FALSE, 0) : net \in Networks}

\* the numbers typed at "Enter latency threshold in ms (100-5000)"
ThresholdInputs == {50, 100, 300, 5000}

\* the numbers typed at "Enter port to check"
CheckPorts == {0, 3000}

InitHealth ==
  \E sites \in { <<>>, scanned(<< 3000 >>, << processOf(101, S_node) >>, 0) } :
     Started(sites, TRUE, TRUE, TRUE)

\* checkSpecificService(): checkServiceHealth on the port typed at the prompt;
\* nothing is stored
checkSpecificService ==
  /\ Later
  /\ \E port \in CheckPorts, henv \in HealthSamples :
       op' = IF port <= 0
               THEN [kind |-> "checkSpecificService", port |-> port, checked |-> FALSE]
               ELSE [kind |-> "checkSpecificService", port |-> port, checked |-> TRUE,
                     open |-> isPortOpen(given(healthProbeTimeout),
                                         config["scan_timeout"], henv.net),
                     connectOk |-> henv.connectOk, us |-> henv.us,
                     result |-> checkServiceHealth(config, henv.net, henv.connectOk,
                                                   henv.us, clock)]
  /\ UNCHANGED << websites, healthHistory, config, configFile, posixAvailable,
                  websitesFile, historyFile >>

\* configureHealthAlerts(), choice 1: the reply to "Enable auto-restart on failure?"
configureAutoRestart ==
  /\ Later
  /\ \E enable \in BOOLEAN :
       \E cfg \in {Put(config, "auto_restart_on_failure", enable)} :
          /\ config' = cfg
          /\ configFile' = saveConfiguration(cfg)
          /\ op' = [kind |-> "configureHealthAlerts", choice |-> "1", stored |-> TRUE]
  /\ UNCHANGED << websites, healthHistory, posixAvailable, websitesFile, historyFile >>

\* configureHealthAlerts(), choice 2: the threshold typed is stored when it is
\* in 100..5000
configureLatencyThreshold ==
  /\ Later
  /\ \E threshold \in ThresholdInputs :
       IF threshold >= 100 /\ threshold <= 5000
         THEN \E cfg \in {Put(config, "latency_threshold_ms", threshold)} :
                 /\ config' = cfg
                 /\ configFile' = saveConfiguration(cfg)
                 /\ op' = [kind |-> "configureHealthAlerts", choice |-> "2",
                           stored |-> TRUE]
         ELSE /\ op' = [kind |-> "configureHealthAlerts", choice |-> "2",
                        stored |-> FALSE]
              /\ UNCHANGED << config, configFile >>
  /\ UNCHANGED << websites, healthHistory, posixAvailable, websitesFile, historyFile >>

NextHealth ==
  \/ checkSpecificService
  \/ configureAutoRestart
  \/ configureLatencyThreshold
  \/ healthCheck

SpecHealth == InitHealth /\ [][NextHealth]_vars

\* ----------------------------------------------- daemon mode (SpecHistory)

\* the iterations of the daemon loop that are modelled
MaxDaemonChecks == 102

\* the checks at the start of the daemon during which a service may be down
StartingChecks == 2

\* what the ports do to the check made at `now`: a service may still be coming
\* up during the first checks and answers in 50 ms afterwards
DaemonEnvs(sites, interval, now) ==
  IF now < StartingChecks * interval
    THEN [DOMAIN sites -> HealthEnvs]
    ELSE [DOMAIN sites -> {HealthEnv(listenerV4, TRUE, 50000)}]

InitHistory ==
  \E sites \in { scanned(<< 3000 >>, << processOf(101, S_node) >>, 0),
                 scanned(<< 3000, 3306 >>,
                         << processOf(101, S_node), processOf(105, S_mysqld) >>, 0) } :
  \E auto_save \in BOOLEAN :
     Started(sites, auto_save, TRUE, TRUE)

\* one iteration of runAsDaemon: healthCheck(), then sleep($interval)
daemonIteration ==
  LET interval == config["health_check_interval"]
  IN  /\ clock < MaxDaemonChecks * interval
      /\ clock' = clock + interval
      /\ \E henv \in DaemonEnvs(websites, interval, clock) : HealthCheck(henv, clock)

NextHistory == daemonIteration

SpecHistory == InitHistory /\ [][NextHistory]_vars

\* --------------------------------- `--restart <port>` (SpecRestart)

\* the programs a scan of the host can find on port 3000: one named by each
\* keyword of $techMap
HostCommands == {techMap[i][1] : i \in 1..Len(techMap)}

\* the registries of one record that a scan saved: port 3000 owned by one of
\* the programs, port 5000 owned by a program no keyword names, and the ports
\* whose owner no method resolved
SavedRegistries ==
  {scanned(<< 3000 >>, << processOf(101, command) >>, 0) : command \in HostCommands}
  \cup {scanned(<< 5000 >>, << processOf(107, S_bash) >>, 0)}
  \cup {scanned(<< port >>, << processUnknown >>, 0) : port \in {3000, 3306, 9000, 9999}}

\* killProcess: the process is gone before the signal, dies at once, dies
\* after 3 sleeps, survives; posix_kill fails
RestartKillEnvs ==
  { KillEnv(FALSE, TRUE, 0), KillEnv(TRUE, TRUE, 0), KillEnv(TRUE, TRUE, 3),
    KillEnv(TRUE, TRUE, Never), KillEnv(TRUE, FALSE, 0) }

\* the probes of waitForPortRelease that still see the port open
ReleaseTimes == {0, 2, Never}

S_restartFailed == << <<"r","e","s","t","a","r","t"," ","f","a","i","l","e","d">> >>

\* what the host can do to restartByTechnology: projects with and without a
\* usable package.json, a Django project, no project; a service that listens
\* at once, after 3 probes, never; a service manager that succeeds silently,
\* fails (exit 1, "Job failed"), and prints "restart failed" with exit 0
RestartHosts ==
  { RestartEnv("dir", TRUE, {"package.json"}, packageStart, 0, 0, <<>>),
    RestartEnv("dir", TRUE, {"package.json"}, packageStart, Never, 1, S_jobFailed),
    RestartEnv("dir", TRUE, {"package.json", "index.php"}, packageDev, 3, 0,
               S_restartFailed),
    RestartEnv("dir", TRUE, {"package.json"}, packageBare, 0, 0, S_active),
    RestartEnv("dir", TRUE, {"package.json"}, packageBroken, 0, 1, <<>>),
    RestartEnv("dir", TRUE, {"manage.py"}, packageBroken, 0, 0, <<>>),
    RestartEnv("dir", TRUE, {"manage.py"}, packageBroken, Never, 0, <<>>),
    RestartEnv(null, FALSE, {}, packageBroken, 0, 0, <<>>),
    RestartEnv(null, FALSE, {}, packageBroken, Never, 1, S_jobFailed) }

InitRestart ==
  \E sites \in SavedRegistries :
  \E start \in { << TRUE, TRUE >>, << FALSE, TRUE >>, << TRUE, FALSE >> } :
     Started(sites, TRUE, start[1], start[2])

\* `--restart <port>`: restartByPort($port), then exit
restartCli ==
  /\ op.kind = "start"
  /\ clock' = clock + 1
  /\ \E port \in {3000, 3306, 5000, 9000, 9999, 8080}, answer \in BOOLEAN,
        kenv \in RestartKillEnvs, releasedAfter \in ReleaseTimes,
        renv \in RestartHosts :
       RestartByPort(port, answer, kenv, releasedAfter, renv)

NextRestart == restartCli

SpecRestart == InitRestart /\ [][NextRestart]_vars

\* ----------------------------------------------------------------- claims

\* the record restartByPort worked on, after the call, and its label as
\* restartByTechnology compares it
restartedSite == websites[op.run.port]
restartedLabel == strtolower(restartedSite["technology"])

\* a confirmed restartByPort on a registered port has just ended
restartRan == op.kind = "restartByPort" /\ op.run.confirmed

onlySignal(signals, signal) == \A i \in DOMAIN signals : signals[i].signal = signal

\* C1: a scan leaves the record of every port that is not both in the list and
\* open exactly as it was, afterwards holds a record with status 'running' for
\* every listed port that responded and adds no other key; from an empty
\* registry the keys are exactly the listed ports that were open.
C1_ScanIsAdditive ==
  [][ op'.kind = "scan" =>
        /\ \A p \in DOMAIN websites :
             p \notin op'.opened => (p \in DOMAIN websites' /\ websites'[p] = websites[p])
        /\ \A p \in op'.opened :
             p \in DOMAIN websites' /\ websites'[p]["status"] = "running"
        /\ op'.opened \subseteq {op'.ports[i] : i \in DOMAIN op'.ports}
        /\ DOMAIN websites' = (DOMAIN websites) \cup op'.opened
        /\ (DOMAIN websites = {} => DOMAIN websites' = op'.opened) ]_vars

\* a scan found a listed port open while the registry held another port
C1_Witness ==
  /\ op.kind = "scan"
  /\ op.opened # {}
  /\ \E p \in DOMAIN websites : p \notin op.opened /\ websites[p]["detected_at"] < clock - 1

\* C2: after every health check the health history holds at most 100 entries;
\* when a check adds an entry to a history of 100, the first (oldest) entry is
\* the one dropped: the other 99 move up and the new entry is the last.
C2_HistoryBounded ==
  /\ [](Len(healthHistory) <= 100)
  /\ [][ (Len(healthHistory) = 100 /\ op'.kind = "healthCheck" /\ op'.checked
          /\ \A i \in 1..100 : healthHistory[i].timestamp # clock) =>
           /\ Len(healthHistory') = 100
           /\ \A i \in 1..99 : healthHistory'[i] = healthHistory[i + 1]
           /\ healthHistory'[100] = [timestamp |-> clock, results |-> op'.results]
           /\ \A i \in 2..100 : healthHistory[1].timestamp < healthHistory[i].timestamp ]_vars

\* the history is full and its first entries are gone
C2_Witness ==
  /\ Len(healthHistory) = 100
  /\ healthHistory[1].timestamp > 0
  /\ op.kind = "healthCheck"

\* C3: the verdict of checkServiceHealth follows from the prober's verdict, the
\* fresh connect and the latency L it computed (hundredths of a millisecond):
\* closed -> unhealthy, 'Port not responding', no connect; open and connect
\* failed -> unhealthy after one connect; L < 100 ms -> healthy; 100 <= L < 500
\* -> degraded, 'Slow response'; L >= 500 -> degraded, 'High latency'; whatever
\* the configuration holds.
C3_HealthVerdict ==
  (op.kind = "checkSpecificService" /\ op.checked) =>
    LET r == op.result
        L == r.latency
    IN  /\ ~op.open =>
             (r.status = "unhealthy" /\ r.message = "Port not responding" /\ r.connects = 0)
        /\ (op.open /\ ~op.connectOk) => (r.status = "unhealthy" /\ r.connects = 1)
        /\ (op.open /\ op.connectOk) =>
             /\ r.connects = 1
             /\ L < 10000 => (r.status = "healthy" /\ r.message = "")
             /\ (L >= 10000 /\ L < 50000) =>
                  (r.status = "degraded" /\ r.message = "Slow response")
             /\ L >= 50000 => (r.status = "degraded" /\ r.message = "High latency")

\* a latency between the configured threshold of 300 ms and 500 ms is reported
\* as a slow response
C3_Witness ==
  /\ op.kind = "checkSpecificService" /\ op.checked
  /\ "latency_threshold_ms" \in DOMAIN config /\ config["latency_threshold_ms"] = 300
  /\ op.open /\ op.connectOk
  /\ op.result.latency > 30000 /\ op.result.latency < 50000
  /\ op.result.message = "Slow response"

\* C4: after a confirmed restartByPort on a registered port the call returned
\* true exactly when the record's status is 'running' (restarted_at set to the
\* time of the call); otherwise the status is 'stopped' (stopped_at set); in
\* both outcomes the registry file holds the registry, and the call launched
\* at most one replacement.
C4_RestartOutcome ==
  restartRan =>
    /\ op.run.ret <=> restartedSite["status"] = "running"
    /\ op.run.ret =>
         ("restarted_at" \in DOMAIN restartedSite /\ restartedSite["restarted_at"] = op.now)
    /\ ~op.run.ret =>
         /\ restartedSite["status"] = "stopped"
         /\ "stopped_at" \in DOMAIN restartedSite
         /\ restartedSite["stopped_at"] = op.now
    /\ websitesFile = json_encode(websites)
    /\ Len(op.run.tech.launched) <= 1

\* a launched replacement never listened: the restart failed
C4_Witness ==
  /\ restartRan
  /\ ~op.run.ret
  /\ op.run.tech.launched # <<>>
  /\ restartedSite["status"] = "stopped"

C6_UnknownPortNoEffect ==
  [][ (op'.kind = "restartByPort" /\ op'.run.port \notin DOMAIN websites) =>
        /\ ~op'.run.ret
        /\ op'.run.kill.signals = <<>>
        /\ op'.run.releaseProbes = 0
        /\ op'.run.tech.launched = <<>> /\ op'.run.tech.shell = <<>>
        /\ op'.run.tech.probes = 0
        /\ websites' = websites
        /\ websitesFile' = websitesFile ]_vars

\* a restart was asked for a port the non-empty registry does not hold
C6_Witness ==
  /\ op.kind = "restartByPort"
  /\ ~op.run.known
  /\ DOMAIN websites # {}
  /\ op.run.port \notin DOMAIN websites

\* C7: a confirmed restartByPort on a record without PID sends no signal, still
\* probes for the release of the port and hands the record to the strategy of
\* its technology: a PHP label gets its launch, a database label its service
\* manager command, and the call returns what the strategy returned.
C7_NoPidStillLaunches ==
  (restartRan /\ restartedSite["pid"] = noPid) =>
    LET t == op.run.tech
    IN  /\ ~op.run.killed
        /\ op.run.kill.signals = <<>>
        /\ op.run.releaseProbes >= 1
        /\ t.strategy # "none"
        /\ restartedLabel \in phpFamily => (Len(t.launched) = 1 /\ (t.ret <=> t.ready))
        /\ restartedLabel \in databaseFamily => (t.shell # <<>> /\ t.ret)
        /\ op.run.ret = t.ret

\* a record without PID was restarted by a launch
C7_Witness ==
  /\ restartRan
  /\ restartedSite["pid"] = noPid
  /\ op.run.tech.launched # <<>>
  /\ op.run.ret
  /\ restartedSite["status"] = "running"

\* C8: a label outside the Node.js, PHP, Python and database lists launches
\* nothing, runs no command and returns false; a label of one of the four
\* lists goes to the strategy of its list.
C8_UnsupportedLabel ==
  restartRan =>
    LET t == op.run.tech
    IN  /\ restartedLabel \notin (nodeFamily \cup phpFamily \cup pythonFamily \cup databaseFamily) =>
             (~t.ret /\ t.launched = <<>> /\ t.shell = <<>> /\ t.probes = 0
              /\ t.strategy = "unsupported")
        /\ restartedLabel \in nodeFamily => t.strategy = "node"
        /\ restartedLabel \in phpFamily => t.strategy = "php"
        /\ restartedLabel \in pythonFamily => t.strategy = "python"
        /\ restartedLabel \in databaseFamily => t.strategy = "database"

\* the record labelled Node.js/React was restarted: nothing was launched
C8_Witness ==
  /\ restartRan
  /\ restartedSite["technology"] = <<"N","o","d","e",".","j","s","/","R","e","a","c","t">>
  /\ op.run.tech.strategy = "unsupported"
  /\ ~op.run.ret
  /\ restartedSite["status"] = "stopped"

\* C9: for a database record, whenever `systemctl restart` failed (non-zero
\* exit, or the word 'failed' in its output) the process is killed by name and
\* the binary launched; a success without that fallback is reported only when
\* the command succeeded.
C9_DatabaseFallback ==
  (restartRan /\ op.run.tech.strategy = "database") =>
    LET t == op.run.tech
        commandFailed == \/ op.renv.sys.rc # 0
                         \/ strposFound(implode(op.renv.sys.output), S_failed)
    IN  /\ commandFailed =>
             /\ t.launched # <<>>
             /\ \E i \in DOMAIN t.shell : t.shell[i].cmd = "pkill"
        /\ (t.ret /\ t.launched = <<>>) => ~commandFailed

RegistryFiles ==
  { absent, truncated, scalar("42"), scalar("null"), json_encode(<<>>),
    json_encode(scanned(<< 3000 >>, << processOf(101, S_node) >>, 0)) }

\* health_history.json as a starting process can find it
HistoryFiles ==
  { absent, truncated, scalar("true"), scalar("0"), json_encode_history(<<>>) }

InitPersist ==
  \E wfile \in RegistryFiles, hfile \in HistoryFiles :
     Constructed(wfile, hfile, configFileWith(TRUE, FALSE), TRUE)

\* a process is running: the constructor returned and run() has not ended
processRuns ==
  /\ op.kind \notin {"shutdown", "crash"}
  /\ op.kind = "start" => ~op.fatal

\* shutdown() at the end of run(): saveConfiguration(), saveWebsites()
shutdown ==
  /\ processRuns
  /\ configFile' = saveConfiguration(config)
  /\ websitesFile' = json_encode(websites)
  /\ op' = [kind |-> "shutdown"]
  /\ UNCHANGED << websites, healthHistory, config, posixAvailable, historyFile, clock >>

\* the process is killed in the middle of file_put_contents of saveWebsites()
\* or of saveHealthHistory(): the file is left cut short
crashInSave ==
  /\ processRuns
  /\ \E file \in {"websites.json", "health_history.json"} :
       /\ websitesFile' = IF file = "websites.json" THEN truncated ELSE websitesFile
       /\ historyFile' = IF file = "health_history.json" THEN truncated ELSE historyFile
       /\ op' = [kind |-> "crash", file |-> file]
  /\ UNCHANGED << websites, healthHistory, config, configFile, posixAvailable, clock >>

\* __construct() of the next process, on the files the last one left
construct ==
  /\ op.kind \in {"shutdown", "crash"}
  /\ config' = loadConfiguration(configFile)
  /\ \E loaded \in {loadWebsites(websitesFile, historyFile)} :
        /\ websites' = loaded.websites
        /\ healthHistory' = loaded.healthHistory
        /\ op' = [kind |-> "start", fatal |-> loaded.fatal]
  /\ UNCHANGED << configFile, posixAvailable, websitesFile, historyFile, clock >>

NextPersist ==
  \/ processRuns /\ scanPorts
  \/ processRuns /\ healthCheck
  \/ processRuns /\ restartWebsite
  \/ processRuns /\ shutdownWebsite
  \/ processRuns /\ sleepWebsite
  \/ shutdown
  \/ crashInSave
  \/ construct

SpecPersist == InitPersist /\ [][NextPersist]_vars

\* ------------------------------------------- the port prober (SpecProbe)

\* scan_timeout as a configuration file can hold it (none: the default 2)
ConfiguredTimeouts == {-5, 0, 1, 2, 7, 10, 11, 30}

\* the numbers typed at "Enter scan timeout (1-10 seconds)"
TimeoutInputs == {0, 1, 5, 10, 11}

\* the $timeout arguments of isPortOpen: none, those of the callers (1, 3) and
\* others the public method can be given
TimeoutArguments == {notGiven} \cup {given(t) : t \in {-1, 0, 1, 3, 10, 11, 60}}

\* What a nonblocking connect to an address without listener leaves: the socket
\* is reported ready at once (the reset has arrived), and socket_last_error is
\* the error socket_connect stored, EINPROGRESS or ECONNREFUSED
RefusedAttempts == {Attempt(TRUE, FALSE, errno, 0, FALSE) : errno \in {EINPROGRESS, ECONNREFUSED}}

\* the hosts a probe is made against: whether something listens on the port,
\* and what the two addresses do
ProbeHosts ==
  {[listens |-> FALSE, net |-> << a4, a6 >>] : a4 \in RefusedAttempts, a6 \in RefusedAttempts}
  \cup {[listens |-> FALSE, net |-> dropped]}
  \cup {[listens |-> TRUE, net |-> net] : net \in {listenerV4, listenerV6}}

\* the configuration file that holds scan_timeout = t
configFileTimeout(t) ==
  IF t = configDefault["scan_timeout"] THEN absent
  ELSE saveConfiguration([configDefault EXCEPT !.scan_timeout = t])

InitProbe ==
  \E t \in ConfiguredTimeouts : Constructed(absent, absent, configFileTimeout(t), TRUE)

\* setScanTimeout(): the number typed is stored when it is in 1..10
setScanTimeout ==
  /\ Later
  /\ \E timeout \in TimeoutInputs :
       IF timeout >= 1 /\ timeout <= 10
         THEN \E cfg \in {[config EXCEPT !.scan_timeout = timeout]} :
                 /\ config' = cfg
                 /\ configFile' = saveConfiguration(cfg)
                 /\ op' = [kind |-> "setScanTimeout", stored |-> TRUE]
         ELSE /\ op' = [kind |-> "setScanTimeout", stored |-> FALSE]
              /\ UNCHANGED << config, configFile >>
  /\ UNCHANGED << websites, healthHistory, posixAvailable, websitesFile, historyFile >>

\* one call isPortOpen($port, $timeout)
probePort ==
  /\ Later
  /\ \E timeout \in TimeoutArguments, host \in ProbeHosts :
       op' = [kind |-> "isPortOpen",
              requested |-> IF timeout = notGiven THEN config["scan_timeout"]
                            ELSE timeout[1],
              configured |-> timeout = notGiven,
              listens |-> host.listens, net |-> host.net,
              run |-> isPortOpenRun(timeout, config["scan_timeout"], host.net)]
  /\ UNCHANGED << websites, healthHistory, config, configFile, posixAvailable,
                  websitesFile, historyFile >>

NextProbe ==
  \/ setScanTimeout
  \/ probePort

SpecProbe == InitProbe /\ [][NextProbe]_vars

\* ------------------------------------ the technology classifier (SpecClassify)

S_NODE == <<"N","O","D","E">>
S_usrSbinNginx == <<"/","u","s","r","/","s","b","i","n","/","n","g","i","n","x">>
S_phpFpm74 == <<"p","h","p","-","f","p","m","7",".","4">>
S_Gunicorn == <<"/","o","p","t","/","G","u","n","i","c","o","r","n">>
S_sshd == <<"s","s","h","d">>

\* the commands given to detectTechnology: every keyword of $techMap as a
\* program name, commands that hold several keywords or capitals, and commands
\* that hold none ('Unknown' is what getProcessInfo reports without a PID)
ClassifyCommands ==
  HostCommands \cup { S_NODE, S_usrSbinNginx, S_phpFpm74, S_Gunicorn, S_usrBinPhp, S_cafe,
                      S_bash, S_sshd, S_Unknown, <<>> }

\* the ports given to detectTechnology: those of $portMap that the scans of the
\* model meet, and two that $portMap does not hold
ClassifyPorts == {80, 443, 3000, 3306, 8000, 9000, 27000, 22, 65535}

InitClassify == Started(<<>>, TRUE, TRUE, TRUE)

\* one call detectTechnology($port, $command)
classify ==
  /\ Later
  /\ \E port \in ClassifyPorts, command \in ClassifyCommands :
       op' = [kind |-> "detectTechnology", port |-> port, command |-> command,
              label |-> detectTechnology(port, command)]
  /\ UNCHANGED << websites, healthHistory, config, configFile, posixAvailable,
                  websitesFile, historyFile >>

NextClassify == classify

SpecClassify == InitClassify /\ [][NextClassify]_vars

\* --------------------------------- continuous monitoring (SpecMonitor)

\* the iterations of while (true) that are modelled
MaxMonitorIterations == 2

\* the registries monitoring starts on: none, one record, two records
MonitoredRegistries ==
  { <<>>,
    scanned(<< 3000 >>, << processOf(101, S_node) >>, 0),
    scanned(<< 3000, 3306 >>, << processOf(101, S_node), processUnknown >>, 0) }

\* what a port can do to one health check of the loop: closed, a connect of
\* 50 ms, a connect of 300 ms
MonitorHealthEnvs == HealthEnvs \cup { HealthEnv(listenerV4, TRUE, 300000) }

InitMonitor ==
  \E sites \in MonitoredRegistries, confirm_actions \in BOOLEAN :
     Started(sites, TRUE, confirm_actions, TRUE)

\* the iteration of while (true) the loop is in: the sleeps made so far
monitorIteration == clock \div config["health_check_interval"]

\* $this->healthCheck() of an iteration
monitorHealthCheck ==
  /\ op.kind \in {"start", "sleep"}
  /\ monitorIteration < MaxMonitorIterations
  /\ IF DOMAIN websites = {} THEN HealthCheckEmpty
     ELSE \E henv \in [DOMAIN websites -> MonitorHealthEnvs] : HealthCheck(henv, clock)
  /\ UNCHANGED clock

\* $this->checkAlerts() of an iteration; yes[port] is the reply to "Restart
\* service?", answer the reply to confirmAction() in restartByPort
monitorCheckAlerts ==
  /\ op.kind = "healthCheck"
  /\ \E yes \in [DOMAIN websites -> BOOLEAN], answer \in BOOLEAN,
        kenv \in {KillEnv(TRUE, TRUE, 0)}, renv \in RestartEnvs :
       \E pass \in {checkAlerts(portsOf(websites), websites, websites, config,
                                posixAvailable, clock, yes, answer, kenv, 0, renv)} :
           /\ websites' = pass.websites
           /\ websitesFile' = IF pass.saved THEN json_encode(pass.websites)
                              ELSE websitesFile
           /\ op' = [kind |-> "checkAlerts", alerted |-> pass.alerted,
                     prompted |-> pass.prompted, yes |-> yes,
                     restarts |-> [i \in 1..Len(pass.restarts) |->
                                     [pass.restarts[i] EXCEPT !.websites = <<>>]]]
  /\ UNCHANGED << healthHistory, config, configFile, posixAvailable, historyFile, clock >>

\* sleep($interval) of an iteration
monitorSleep ==
  /\ op.kind = "checkAlerts"
  /\ clock' = clock + config["health_check_interval"]
  /\ op' = [kind |-> "sleep", seconds |-> config["health_check_interval"]]
  /\ UNCHANGED << websites, healthHistory, config, configFile, posixAvailable,
                  websitesFile, historyFile >>

\* startContinuousMonitoring(): while (true) { healthCheck(); checkAlerts(); sleep(); }
NextMonitor ==
  \/ monitorHealthCheck
  \/ monitorCheckAlerts
  \/ monitorSleep

\* every call of the loop returns (the operator answers the prompts), so the
\* statement that follows it is executed
SpecMonitor == InitMonitor /\ [][NextMonitor]_vars /\ WF_vars(NextMonitor)

\* ------------------- health checks within one second (SpecStamps)

\* the seconds of the modelled session
MaxStampSeconds == 2

\* a session that starts with a saved registry of one or of two records
InitStamps ==
  \E sites \in { scanned(<< 3000 >>, << processOf(101, S_node) >>, 0),
                 scanned(<< 3000, 3306 >>,
                         << processOf(101, S_node), processOf(105, S_mysqld) >>, 0) } :
  \E auto_save \in BOOLEAN :
     Started(sites, auto_save, TRUE, TRUE)

\* the health menu's "check all services" (healthCheck()) in the second the
\* clock shows: $timestamp = date('Y-m-d H:i:s')
healthCheckNow ==
  /\ UNCHANGED clock
  /\ \E henv \in [DOMAIN websites -> HealthEnvs] : HealthCheck(henv, clock)

\* the next second begins
secondPasses ==
  /\ clock < MaxStampSeconds
  /\ clock' = clock + 1
  /\ UNCHANGED << websites, healthHistory, config, configFile, posixAvailable,
                  websitesFile, historyFile, op >>

NextStamps ==
  \/ healthCheckNow
  \/ secondPasses

SpecStamps == InitStamps /\ [][NextStamps]_vars

\* ----------------- services bound to one loopback address (SpecLoopback)

\* the loopback addresses the services of the modelled host accept
\* connections on: 3000 on 127.0.0.1 only, 8000 on ::1 only, 3306 on both,
\* every other port on none
LoopbackListeners(port) ==
  IF port = 3000 THEN {"127.0.0.1"}
  ELSE IF port = 8000 THEN {"::1"}
  ELSE IF port = 3306 THEN {"127.0.0.1", "::1"}
  ELSE {}

\* the nonblocking connect of the prober to an address: in progress and
\* writable at once when a service accepts there, refused when none does
attemptOn(accepts) ==
  IF accepts THEN Attempt(TRUE, FALSE, EINPROGRESS, 0, FALSE)
  ELSE Attempt(TRUE, FALSE, ECONNREFUSED, 0, FALSE)

\* $methods = [['127.0.0.1', AF_INET], ['::1', AF_INET6]] against a service
\* that accepts on `listens`
loopbackNet(listens) ==
  << attemptOn("127.0.0.1" \in listens), attemptOn("::1" \in listens) >>

\* the mutant of fsockopen that connects to whichever loopback address accepts
fsockopenAnyAddress(listens) == listens # {}
\* @fsockopen('127.0.0.1', $port, $errno, $errstr, 3): a socket exactly when
\* the service accepts on 127.0.0.1
fsockopen(listens) == "127.0.0.1" \in listens

\* the port lists given to a scan of this host
LoopbackScanLists == { << 8000 >>, << 3000, 8000 >>, << 80, 3306 >> }

\* the microseconds a successful fsockopen takes
LoopbackConnectTimes == {50000, 300000}

InitLoopback ==
  \E sites \in { <<>>,
                 scanned(<< 8000 >>, << processOf(103, S_python3) >>, 0),
                 scanned(<< 3000, 3306 >>,
                         << processOf(101, S_node), processOf(105, S_mysqld) >>, 0) } :
  \E auto_save \in BOOLEAN :
     Started(sites, auto_save, TRUE, TRUE)

\* scanPorts() on this host
scanLoopback ==
  /\ Later
  /\ \E ports \in LoopbackScanLists :
     \E infos \in [1..Len(ports) -> UNION {ProcessInfos(ports[i]) : i \in 1..Len(ports)}] :
        /\ \A i \in 1..Len(ports) :
             /\ infos[i] \in ProcessInfos(ports[i])
             /\ LoopbackListeners(ports[i]) = {} => infos[i] = processUnknown
        /\ ScanWith(ports, [i \in 1..Len(ports) |->
                              loopbackNet(LoopbackListeners(ports[i]))], infos)

\* healthCheck() on this host
healthCheckLoopback ==
  /\ Later
  /\ DOMAIN websites # {}
  /\ \E us \in [DOMAIN websites -> LoopbackConnectTimes] :
       HealthCheck([p \in DOMAIN websites |->
                      HealthEnv(loopbackNet(LoopbackListeners(p)),
                                fsockopen(LoopbackListeners(p)), us[p])], clock)

NextLoopback ==
  \/ scanLoopback
  \/ healthCheckLoopback

SpecLoopback == InitLoopback /\ [][NextLoopback]_vars

\* ------------- the two unattended loops and the alert settings (SpecWatch)

\* the configuration files earlier sessions left: confirm_actions on or off,
\* and auto_restart_on_failure never set, stored as false or stored as true by
\* configureHealthAlerts
WatchConfigFiles ==
  {saveConfiguration([configDefault EXCEPT !.confirm_actions = confirm_actions]) :
     confirm_actions \in BOOLEAN}
  \cup {saveConfiguration(Put([configDefault EXCEPT !.confirm_actions = confirm_actions],
                              "auto_restart_on_failure", enable)) :
          confirm_actions \in BOOLEAN, enable \in BOOLEAN}

InitWatch ==
  \E sites \in { scanned(<< 3000 >>, << processOf(101, S_node) >>, 0),
                 scanned(<< 3000, 3306 >>, << processOf(101, S_node), processUnknown >>, 0) } :
  \E cfile \in WatchConfigFiles :
     Constructed(json_encode(sites), absent, cfile, TRUE)

\* one iteration of runAsDaemon (`--daemon`): healthCheck(), then
\* sleep($interval); the process is in this loop from its start
runAsDaemon ==
  LET interval == config["health_check_interval"]
  IN  /\ op.kind \in {"start", "runAsDaemon"}
      /\ clock < MaxMonitorIterations * interval
      /\ clock' = clock + interval
      /\ \E henv \in [DOMAIN websites -> HealthEnvs] :
           HealthCheckFrom("runAsDaemon", henv, clock)

\* the process is in the loop of startContinuousMonitoring, or in that of
\* runAsDaemon
NextWatch ==
  \/ monitorHealthCheck
  \/ monitorCheckAlerts
  \/ monitorSleep
  \/ runAsDaemon

SpecWatch == InitWatch /\ [][NextWatch]_vars

\* the fields of a record a health check writes
healthFields == {"health_status", "latency_ms", "last_check"}

\* C11: a health check over the registry neither adds nor removes an entry and
\* changes no field of a record other than health_status, latency_ms and
\* last_check: status, pid, technology and detected_at stay as they were, also
\* for a record found unhealthy.
C11_HealthCheckFrame ==
  [][ op'.kind = "healthCheck" =>
        /\ DOMAIN websites' = DOMAIN websites
        /\ \A p \in DOMAIN websites :
             /\ DOMAIN websites'[p] \subseteq (DOMAIN websites[p]) \cup healthFields
             /\ \A field \in (DOMAIN websites[p]) \ healthFields :
                  field \in DOMAIN websites'[p] /\ websites'[p][field] = websites[p][field]
             /\ op'.checked =>
                  /\ healthFields \subseteq DOMAIN websites'[p]
                  /\ websites'[p]["health_status"] = op'.results[p].status ]_vars

\* a health check found a running record unhealthy, and a stopped one besides
C11_Witness ==
  /\ op.kind = "healthCheck" /\ op.checked
  /\ \E p \in DOMAIN websites :
       websites[p]["health_status"] = "unhealthy" /\ websites[p]["status"] = "running"
  /\ \E p \in DOMAIN websites : websites[p]["status"] = "stopped"

\* the health fields of record p are in `after` what they were in `before`
sameHealth(before, after, p) ==
  /\ p \in DOMAIN after
  /\ \A field \in {"health_status", "latency_ms"} :
       /\ field \in DOMAIN after[p] <=> field \in DOMAIN before[p]
       /\ field \in DOMAIN before[p] => after[p][field] = before[p][field]

\* C12: a scan (also one that finds a registered port again), a restart, a
\* sleep and a shutdown leave health_status and latency_ms of every record as
\* they were.
C12_OnlyHealthCheckWritesHealth ==
  [][ op'.kind \in {"scan", "restartByPort", "sleepWebsite", "shutdownWebsite"} =>
        \A p \in DOMAIN websites : sameHealth(websites, websites', p) ]_vars

\* the operations that end in a restartByPort call
restartKinds == {"restartByPort", "checkAlerts"}

\* the documented moves of the status field: what operation `kind` may do to a
\* record whose status was `old` and is `new`
documentedMove(old, new, kind) ==
  \/ new = old
  \/ new = "sleeping" /\ old = "running" /\ kind = "sleepWebsite"
  \/ new = "stopped" /\ kind \in {"shutdownWebsite"} \cup restartKinds
  \/ new = "running" /\ old \in {"stopped", "sleeping"} /\ kind \in restartKinds

\* C13: the status of every record is one of running, sleeping, stopped and
\* unknown; a record enters the registry as running by a scan; afterwards its
\* status changes only by a documented move: running -> sleeping by sleep,
\* -> stopped by shutdown or a failed restart, back to running by a successful
\* restart only; a sleep leaves a stopped record as it was.
C13_StatusMachine ==
  [][ \A p \in DOMAIN websites' :
        /\ websites'[p]["status"] \in {"running", "sleeping", "stopped", "unknown"}
        /\ p \notin DOMAIN websites =>
             (op'.kind = "scan" /\ websites'[p]["status"] = "running")
        /\ p \in DOMAIN websites =>
             documentedMove(websites[p]["status"], websites'[p]["status"], op'.kind) ]_vars

\* the registry file holds the registry `sites` (no file: the empty registry)
fileHolds(file, sites) ==
  \/ file = json_encode(sites)
  \/ file = absent /\ DOMAIN sites = {}

\* a scan, or a health check that found records to check, has just ended
scanOrCheckRan(o) == o.kind = "scan" \/ (o.kind = "healthCheck" /\ o.checked)

\* C14 as amended: a scan and a health check of a non-empty registry write the
\* registry file exactly when auto_save is set, and it then holds the registry
\* in memory; a health check of a non-empty registry writes the history file
\* whatever auto_save is; a scan never writes the history file, and a health
\* check of an empty registry writes no file.
C14_AutoSaveGatesRegistryOnly ==
  [][ op'.kind \in {"scan", "healthCheck"} =>
        /\ (scanOrCheckRan(op') /\ config["auto_save"]) =>
             websitesFile' = json_encode(websites')
        /\ ~(scanOrCheckRan(op') /\ config["auto_save"]) => websitesFile' = websitesFile
        /\ (op'.kind = "healthCheck" /\ op'.checked) =>
             /\ historyFile' = json_encode_history(healthHistory')
             /\ historyFile' # historyFile
        /\ ~(op'.kind = "healthCheck" /\ op'.checked) => historyFile' = historyFile ]_vars

\* with auto_save off a health check left the history on file while the
\* registry file does not hold the checked registry
C14_Witness ==
  /\ op.kind = "healthCheck" /\ op.checked
  /\ ~config["auto_save"]
  /\ historyFile = json_encode_history(healthHistory) /\ healthHistory # <<>>
  /\ websitesFile # json_encode(websites)

\* C14 as stated: with auto_save on the registry file holds the registry in
\* memory after every scan and health check; with auto_save off neither writes
\* the registry file or the history file.
C14_AutoSaveGatesAllWrites ==
  [][ op'.kind \in {"scan", "healthCheck"} =>
        /\ config["auto_save"] => fileHolds(websitesFile', websites')
        /\ ~config["auto_save"] =>
             (websitesFile' = websitesFile /\ historyFile' = historyFile) ]_vars

\* C15: when a session ends with saveWebsites() and the next process runs
\* loadWebsites(), the new process starts without error and its registry has
\* the ports of the old one as integer keys and, under each, a record with the
\* same fields and values; so for the empty registry.
C15_RoundTrip ==
  [][ (op.kind = "shutdown" /\ op'.kind = "start") =>
        /\ ~op'.fatal
        /\ DOMAIN websites' = DOMAIN websites
        /\ \A p \in DOMAIN websites : websites'[p] = websites[p] ]_vars

\* the file is missing or does not hold a JSON array or object
notAMap(file) == file.kind \in {"absent", "empty", "truncated", "scalar"}

\* C16: a process that finds websites.json or health_history.json missing,
\* cut short, or holding JSON that is not a map starts without a fatal error,
\* with an empty registry, respectively an empty history.
C16_LoadTolerates ==
  op.kind = "start" =>
    /\ (notAMap(websitesFile) \/ notAMap(historyFile)) => ~op.fatal
    /\ notAMap(websitesFile) => websites = <<>>
    /\ notAMap(historyFile) => healthHistory = <<>>

\* C17: the timeout isPortOpen uses is max(1, min(t, 10)) seconds for every
\* requested t, given as argument or taken from scan_timeout (also one loaded
\* from the configuration file): a port that never answers is waited for that
\* long on each of the two addresses.
C17_TimeoutClamped ==
  op.kind = "isPortOpen" =>
    LET t == op.requested
        used == IF t < 1 THEN 1 ELSE IF t > 10 THEN 10 ELSE t
    IN  /\ op.run.timeout = used
        /\ op.net = dropped => (~op.run.open /\ op.run.waited = 2 * used * 1000)

\* a scan_timeout of 30 loaded from the configuration file was used as 10
C17_Witness ==
  /\ op.kind = "isPortOpen"
  /\ op.configured /\ op.requested = 30
  /\ configFile.kind = "object" /\ configFile.members["scan_timeout"] = 30
  /\ op.net = dropped
  /\ op.run.timeout = 10 /\ op.run.waited = 20000

\* C18: when nothing listens on the port on either address, isPortOpen returns
\* false whatever error the refused connect left on the socket, and the time it
\* waits, over both addresses, is at most the clamped timeout.
C18_ClosedPortFalseInTime ==
  (op.kind = "isPortOpen" /\ ~op.listens) =>
    /\ ~op.run.open
    /\ op.run.waited <= op.run.timeout * 1000

\* keyword i of $techMap occurs in the lower-cased command
keywordOccurs(command, i) == strposFound(strtolower(command), techMap[i][1])

\* C19: detectTechnology returns the label of the first keyword of the table
\* that occurs in the lower-cased command, whatever the port; when no keyword
\* occurs, the label the port table has for the port, and 'Unknown' when it has
\* none.  The label depends on the port and the command only.
C19_FirstKeywordWins ==
  op.kind = "detectTechnology" =>
    LET keys == 1..Len(techMap)
        none == \A i \in keys : ~keywordOccurs(op.command, i)
    IN  /\ \A i \in keys :
             (keywordOccurs(op.command, i) /\ \A j \in 1..(i - 1) : ~keywordOccurs(op.command, j))
               => op.label = techMap[i][2]
        /\ \A k \in 1..Len(portMap) :
             (none /\ portMap[k][1] = op.port) => op.label = portMap[k][2]
        /\ (none /\ \A k \in 1..Len(portMap) : portMap[k][1] # op.port)
             => op.label = S_Unknown
        /\ op.command = S_usrSbinNginx => op.label = <<"A","n","g","u","l","a","r">>
        /\ op.command = S_phpFpm74 => op.label = <<"P","H","P">>
        /\ op.command = S_NODE => op.label = <<"N","o","d","e",".","j","s">>
        /\ (op.command = S_bash /\ op.port = 3306) => op.label = <<"M","y","S","Q","L">>
        /\ (op.command = S_sshd /\ op.port = 22) => op.label = S_Unknown

\* a command that holds two keywords was classified on a port of the port
\* table: the earlier keyword gave the label, not the later one or the port
C19_Witness ==
  /\ op.kind = "detectTechnology"
  /\ op.command = S_usrSbinNginx
  /\ op.port = 3306
  /\ keywordOccurs(op.command, 9) /\ keywordOccurs(op.command, 13)
  /\ op.label = techMap[9][2]

\* the ports of the records that are unhealthy in `sites`
unhealthyPorts(sites) ==
  {p \in DOMAIN sites : Get(sites[p], "health_status", "unknown") = "unhealthy"}

C21_KillWaitAboutOneSecond ==
  (restartRan /\ op.run.killed) =>
    /\ op.run.kill.sleeps <= 10
    /\ ~op.kenv.exists => (op.run.kill.ret /\ op.run.kill.signals = <<>>)
    /\ (op.kenv.exists /\ op.kenv.goneAfter = Never) => ~op.run.kill.ret
    /\ (op.kenv.exists /\ op.kenv.goneAfter # Never) =>
         (op.run.kill.ret /\ op.run.kill.sleeps = op.kenv.goneAfter)

\* C22: in restartByPort each step runs only if the step before it succeeded:
\* when the termination of the known PID fails (the process is still alive
\* after the wait) no replacement is launched and the restart returns false.
C22_StepsDependOnPrevious ==
  (restartRan /\ op.run.killed /\ ~op.run.kill.ret) =>
    /\ op.run.tech.launched = <<>>
    /\ op.run.tech.shell = <<>>
    /\ ~op.run.ret

\* the fields of a record that say when it was found and when a lifecycle
\* action was last applied to it
lifecycleStamps == {"detected_at", "restarted_at", "stopped_at", "sleep_since"}

\* C23: a re-scan of a registered port updates the record in place: detected_at
\* and the lifecycle timestamps (restarted_at, stopped_at, sleep_since) recorded
\* before the scan are still present with the same values after it, and no scan,
\* health check, restart, sleep or shutdown removes a record.
C23_RescanUpdatesInPlace ==
  [][ /\ DOMAIN websites \subseteq DOMAIN websites'
      /\ op'.kind = "scan" =>
           \A p \in DOMAIN websites :
             \A f \in lifecycleStamps \cap DOMAIN websites[p] :
               /\ f \in DOMAIN websites'[p]
               /\ websites'[p][f] = websites[p][f] ]_vars

\* the package.json scripts of the project restartByTechnology was given
manifestScripts == Get(op.renv.fs.package.data, "scripts", <<>>)

\* a project directory with a manifest that defines a start or a dev script
manifestUsable ==
  /\ op.renv.cwd # null
  /\ op.renv.fs.isDir
  /\ "package.json" \in op.renv.fs.files
  /\ op.renv.fs.package.decoded
  /\ {"start", "dev"} \cap DOMAIN manifestScripts # {}

\* C24: the Node.js strategy runs the manifest entry named 'start' when it is
\* defined and else the entry named 'dev' (npm is always given one of these two
\* keys, whatever the script's command text), and returns false without a
\* launch when there is no project directory, no manifest or neither script.
C24_NodeRunsStartOrDev ==
  (restartRan /\ op.run.tech.strategy = "node") =>
    IF manifestUsable
      THEN op.run.tech.launched =
             << [cmd |-> "npm run",
                 arg |-> IF "start" \in DOMAIN manifestScripts THEN "start" ELSE "dev",
                 port |-> op.run.port] >>
      ELSE op.run.tech.launched = <<>> /\ ~op.run.ret

\* C25: every entry of $techMap is reachable: for each keyword k of the table,
\* detectTechnology(port, k) is the label the table gives k; no entry is
\* shadowed by an earlier keyword that is a substring of it.
C25_EveryKeywordReachable ==
  op.kind = "detectTechnology" =>
    \A i \in 1..Len(techMap) :
      op.command = techMap[i][1] => op.label = techMap[i][2]

\* the restart was of a record whose technology no strategy supports
unsupportedRestart == restartRan /\ strategyOf(restartedLabel) = "unsupported"

\* C26: restartByPort on a record of an unsupported technology terminates the
\* owner, when a PID is known, before the technology is found unsupported: the
\* signal is sent to the recorded PID although nothing is launched; the call
\* returns false and leaves the record with status 'stopped'.
C26_UnsupportedKilledFirst ==
  unsupportedRestart =>
    /\ op.run.killed <=> restartedSite["pid"] # noPid
    /\ (op.run.killed /\ op.kenv.exists) =>
         /\ op.run.kill.signals # <<>>
         /\ \A i \in DOMAIN op.run.kill.signals :
              /\ op.run.kill.signals[i].pid = restartedSite["pid"]
              /\ op.run.kill.signals[i].signal = "SIGTERM"
    /\ ~op.run.killed => op.run.kill = NoKill
    /\ op.run.tech = NotLaunched("unsupported")
    /\ ~op.run.ret
    /\ restartedSite["status"] = "stopped"
    /\ restartedSite["stopped_at"] = op.now

\* a record labelled by the port table only ('Flask/Python' on port 5000) whose
\* owner was alive: the owner was signalled and died, nothing was launched
C26_Witness ==
  /\ unsupportedRestart
  /\ op.run.port = 5000
  /\ restartedSite["technology"] = <<"F","l","a","s","k","/","P","y","t","h","o","n">>
  /\ op.run.killed
  /\ op.kenv.exists
  /\ op.run.kill.ret
  /\ op.run.kill.signals # <<>>
  /\ op.run.tech.launched = <<>>
  /\ restartedSite["status"] = "stopped"

\* C27: a confirmed shutdownWebsite on a record with a known PID sets status
\* 'stopped' (and shutdown_at) and saves the registry whatever killProcess
\* returned, so the record can read 'stopped' while the process is alive; on a
\* record without PID it leaves the registry and the saved registry as they were.
C27_ShutdownRecordedRegardless ==
  [][ (op'.kind = "shutdownWebsite" /\ op'.confirmed) =>
        IF websites[op'.port]["pid"] # noPid
          THEN /\ DOMAIN websites' = DOMAIN websites
               /\ websites'[op'.port]["status"] = "stopped"
               /\ websites'[op'.port]["shutdown_at"] = clock
               /\ websites'[op'.port]["pid"] = websites[op'.port]["pid"]
               /\ \A p \in DOMAIN websites \ {op'.port} : websites'[p] = websites[p]
               /\ websitesFile' = json_encode(websites')
          ELSE /\ websites' = websites
               /\ websitesFile' = websitesFile
               /\ op'.kill = NoKill ]_vars

\* the owner survived the signal, and the record reads 'stopped' in the
\* registry and in websites.json
C27_Witness ==
  /\ op.kind = "shutdownWebsite"
  /\ op.confirmed
  /\ op.kill.signals # <<>>
  /\ ~op.kill.ret
  /\ websites[op.port]["status"] = "stopped"
  /\ websitesFile = json_encode(websites)
  /\ ~config["auto_save"]

\* the positions of the history entries made in the second `timestamp`
entriesAt(history, timestamp) ==
  {i \in 1..Len(history) : history[i].timestamp = timestamp}

\* C28: the health history holds at most one entry per timestamp (one second):
\* a health check whose timestamp is that of an entry replaces the entry where
\* it is and adds none, a check with a new timestamp adds one at the end; so
\* after n checks of a non-empty registry the history may hold fewer than
\* min(n, 100) entries.  (A step that leaves the clock alone is a check.)
C28_OneEntryPerSecond ==
  /\ [](\A i, j \in 1..Len(healthHistory) :
          healthHistory[i].timestamp = healthHistory[j].timestamp => i = j)
  /\ [][ (op'.kind = "healthCheck" /\ op'.checked /\ clock' = clock) =>
           LET entry == [timestamp |-> clock', results |-> op'.results]
           IN  IF entriesAt(healthHistory, clock') # {}
                 THEN /\ op'.replaced
                      /\ Len(healthHistory') = Len(healthHistory)
                      /\ \A i \in 1..Len(healthHistory) :
                           healthHistory'[i] = IF i \in entriesAt(healthHistory, clock')
                                                 THEN entry ELSE healthHistory[i]
                 ELSE /\ ~op'.replaced
                      /\ healthHistory' = Append(healthHistory, entry) ]_vars

\* a second check in the same second replaced the entry of the first: two
\* checks of a non-empty registry, one entry
C28_Witness ==
  /\ op.kind = "healthCheck"
  /\ op.checked
  /\ op.replaced
  /\ Len(healthHistory) = 1
  /\ healthHistory[1] = [timestamp |-> clock, results |-> op.results]

\* the port accepts connections on ::1 and not on 127.0.0.1
onlyOnV6(port) == LoopbackListeners(port) = {"::1"}

\* C29: a port that accepts connections on ::1 only is registered by a scan
\* with status 'running', because isPortOpen returns true for it, and is
\* reported unhealthy by every health check, because the connect that measures
\* the latency goes to 127.0.0.1 only; the record stays 'running'.
C29_V6OnlyRunningButUnhealthy ==
  [][ /\ op'.kind = "scan" =>
           \A i \in 1..Len(op'.ports) :
             onlyOnV6(op'.ports[i]) =>
               /\ isPortOpen(notGiven, config["scan_timeout"],
                             loopbackNet(LoopbackListeners(op'.ports[i])))
               /\ op'.ports[i] \in op'.opened
               /\ op'.ports[i] \in DOMAIN websites'
               /\ websites'[op'.ports[i]]["status"] = "running"
      /\ (op'.kind = "healthCheck" /\ op'.checked) =>
           \A p \in DOMAIN websites :
             onlyOnV6(p) =>
               /\ op'.results[p].status = "unhealthy"
               /\ op'.results[p].latency = 0
               /\ op'.results[p].message = "Connection failed"
               /\ websites'[p]["health_status"] = "unhealthy"
               /\ websites'[p]["status"] = websites[p]["status"] ]_vars

\* port 8000 was found by a scan of this session (no registry was saved before
\* it) and then checked: the record reads 'running' and 'unhealthy'
C29_Witness ==
  /\ op.kind = "healthCheck"
  /\ op.checked
  /\ websitesFile = absent
  /\ 8000 \in DOMAIN websites
  /\ onlyOnV6(8000)
  /\ websites[8000]["status"] = "running"
  /\ websites[8000]["health_status"] = "unhealthy"
  /\ op.results[8000].message = "Connection failed"

\* the ports an alert pass called restartByPort for
restartedPorts(o) == {o.restarts[i].port : i \in 1..Len(o.restarts)}

\* C30: in continuous monitoring restartByPort is called for an unhealthy
\* service exactly when confirm_actions is on and the operator answers yes to
\* the alert prompt of that iteration, once; nothing else of the pass touches a
\* record or websites.json, whatever auto_restart_on_failure holds.  An
\* iteration of daemon mode checks the health and neither alerts nor restarts:
\* it writes the health fields of the records only.
C30_RestartOnlyOnYes ==
  [][ /\ config' = config
      /\ op'.kind = "checkAlerts" =>
           /\ restartedPorts(op') =
                {p \in unhealthyPorts(websites) : config["confirm_actions"] /\ op'.yes[p]}
           /\ Len(op'.restarts) = Cardinality(restartedPorts(op'))
           /\ \A p \in DOMAIN websites \ restartedPorts(op') : websites'[p] = websites[p]
           /\ restartedPorts(op') = {} => websitesFile' = websitesFile
      /\ op'.kind = "runAsDaemon" =>
           /\ DOMAIN op' \cap {"alerted", "prompted", "restarts"} = {}
           /\ DOMAIN websites' = DOMAIN websites
           /\ \A p \in DOMAIN websites :
                /\ DOMAIN websites'[p] \subseteq DOMAIN websites[p] \cup healthFields
                /\ \A f \in DOMAIN websites[p] \ healthFields :
                     websites'[p][f] = websites[p][f] ]_vars

\* auto_restart_on_failure is on and two services are unhealthy: the one the
\* operator said yes for was restarted, the other was left alone
C30_Witness ==
  /\ op.kind = "checkAlerts"
  /\ Get(config, "auto_restart_on_failure", FALSE)
  /\ config["confirm_actions"]
  /\ op.alerted = << 3000, 3306 >>
  /\ op.yes[3000] /\ ~op.yes[3306]
  /\ restartedPorts(op) = {3000}
  /\ op.restarts[1].confirmed
  /\ websites[3306]["status"] = "running"
  /\ "stopped_at" \notin DOMAIN websites[3306]
====
